---- MODULE Spec2Model ----
(***************************************************************************)
(* A model of HSIView's MAT5 container reader/writer (MatHelper.c).        *)
(*                                                                         *)
(* Files and buffers are sequences of bytes (0..255).  C offsets are       *)
(* 0-based: the byte at offset o of a buffer b is b[o + 1].                *)
(* A 32-bit word is a 4-tuple of bytes, least significant first, and a     *)
(* 64-bit word an 8-tuple, so that the byte swaps are computed as the code *)
(* computes them; Val32 gives the number of a word below 2^31.             *)
(* size_t is modelled as a 31-bit word (SIZE_MAX = 2^31 - 1).              *)
(***************************************************************************)
EXTENDS Integers, Sequences, FiniteSets, Bags, TLC

\* ---------------------------------------------------------------- codes

MI_INT8 == 1
MI_UINT8 == 2
MI_INT16 == 3
MI_UINT16 == 4
MI_INT32 == 5
MI_UINT32 == 6
MI_SINGLE == 7
MI_DOUBLE == 9
MI_INT64 == 12
MI_UINT64 == 13
MI_MATRIX == 14
MI_COMPRESSED == 15
MI_UTF8 == 16
MI_UTF16 == 17
MI_UTF32 == 18

MX_DOUBLE_CLASS == 6
MX_SINGLE_CLASS == 7
MX_INT8_CLASS == 8
MX_UINT8_CLASS == 9
MX_INT16_CLASS == 10
MX_UINT16_CLASS == 11

MAT_DATA_FLOAT64 == 0
MAT_DATA_FLOAT32 == 1
MAT_DATA_UINT8 == 2
MAT_DATA_UINT16 == 3
MAT_DATA_INT8 == 4
MAT_DATA_INT16 == 5

\* The size word of the model: checked_mul_size and checked_add_size refuse
\* what does not fit it.
SIZE_MAX == 2147483647
INT32_MAX == 2147483647
\* sizeof(name) of ParsedMatrix and MatCubeInfo.
NAME_CAP == 256
\* Offset of the first element: the header's length.
HEADER_SIZE == 128

\* ---------------------------------------------------------------- bytes

Byte == 0..255

Zeros(n) == [i \in 1..n |-> 0]

\* s[from+1 .. from+len], the C view (s + from, len).
Slice(s, from, len) == SubSeq(s, from + 1, from + len)

Reverse(s) == [i \in 1..Len(s) |-> s[Len(s) + 1 - i]]

RECURSIVE FlattenSeq(_)
FlattenSeq(ss) == IF ss = <<>> THEN <<>> ELSE Head(ss) \o FlattenSeq(Tail(ss))

\* The number v < 2^31 as a 32-bit word.
U32(v) == <<v % 256, (v \div 256) % 256, (v \div 65536) % 256, (v \div 16777216) % 256>>

\* A word's number; only for words below 2^31 (w[4] < 128).
Val32(w) == w[1] + 256 * w[2] + 65536 * w[3] + 16777216 * w[4]

\* word > n, for any word and any n < 2^31.
U32Gt(w, n) == w[4] >= 128 \/ Val32(w) > n

bswap16(w) == <<w[2], w[1]>>

bswap32(w) == <<w[4], w[3], w[2], w[1]>>

bswap64(w) == <<w[8], w[7], w[6], w[5], w[4], w[3], w[2], w[1]>>

\* The bytes a word occupies in the memory of a host.
MemBytes(w, hostLE) == IF hostLE THEN w ELSE Reverse(w)

read_u32(bytes, off, little_endian) ==
    LET value == <<bytes[off + 1], bytes[off + 2], bytes[off + 3], bytes[off + 4]>>
    IN IF ~little_endian THEN bswap32(value) ELSE value

read_u64(bytes, off, little_endian) ==
    LET value == [i \in 1..8 |-> bytes[off + i]]
    IN IF ~little_endian THEN bswap64(value) ELSE value

\* ------------------------------------------------------ checked arithmetic

\* The sum of a sequence of naturals: the size of the bag that holds the
\* index i once more than f[i] times, less one for each index.
SumOf(f) == BagCardinality([i \in 1..Len(f) |-> f[i] + 1]) - Len(f)

\* The product cut to the size word, as unsigned arithmetic gives it: the
\* sum of a shifted by each bit of b, in two halves of the word.
MulWord(a, b) ==
    LET term(i) == IF (b \div 2 ^ (i - 1)) % 2 = 0 THEN 0
                   ELSE IF i = 1 THEN a
                   ELSE (a % 2 ^ (32 - i)) * 2 ^ (i - 1)
        lo == SumOf([i \in 1..31 |-> term(i) % 65536])
        hi == SumOf([i \in 1..31 |-> term(i) \div 65536])
    IN ((hi + (lo \div 65536)) % 32768) * 65536 + (lo % 65536)

\* A product without the test of the quotient.
checked_mul_size_wrapping(a, b) == [ok |-> TRUE, out |-> MulWord(a, b)]

checked_mul_size(a, b) ==
    IF a = 0 \/ b = 0 THEN [ok |-> TRUE, out |-> 0]
    ELSE IF a > SIZE_MAX \div b THEN [ok |-> FALSE, out |-> 0]
    ELSE [ok |-> TRUE, out |-> a * b]

checked_add_size(a, b) ==
    IF a > SIZE_MAX - b THEN [ok |-> FALSE, out |-> 0]
    ELSE [ok |-> TRUE, out |-> a + b]

\* dims has three slots; a rank above 3 makes the loop read past them, and
\* what it reads there is undefined: oob is the value every such read yields.
DimAt(dims, i, oob) == IF i <= 3 THEN dims[i] ELSE oob

\* The count with products that are not tested.
RECURSIVE count_loop_wrapping(_, _, _, _, _)
count_loop_wrapping(dims, rank, i, total, oob) ==
    IF i > rank THEN [ok |-> TRUE, out |-> total]
    ELSE IF DimAt(dims, i, oob) = 0 THEN [ok |-> FALSE, out |-> 0]
    ELSE LET m == checked_mul_size_wrapping(total, DimAt(dims, i, oob))
         IN IF ~m.ok THEN [ok |-> FALSE, out |-> 0]
            ELSE count_loop_wrapping(dims, rank, i + 1, m.out, oob)

count_elements_wrapping(dims, rank, oob) ==
    IF rank <= 0 THEN [ok |-> FALSE, out |-> 0]
    ELSE count_loop_wrapping(dims, rank, 1, 1, oob)

RECURSIVE count_loop(_, _, _, _, _)
count_loop(dims, rank, i, total, oob) ==
    IF i > rank THEN [ok |-> TRUE, out |-> total]
    ELSE IF DimAt(dims, i, oob) = 0 THEN [ok |-> FALSE, out |-> 0]
    ELSE LET m == checked_mul_size(total, DimAt(dims, i, oob))
         IN IF ~m.ok THEN [ok |-> FALSE, out |-> 0]
            ELSE count_loop(dims, rank, i + 1, m.out, oob)

count_elements(dims, rank, oob) ==
    IF rank <= 0 THEN [ok |-> FALSE, out |-> 0]
    ELSE count_loop(dims, rank, 1, 1, oob)

aligned8(value) ==
    IF value > SIZE_MAX - 7 THEN SIZE_MAX
    ELSE ((value + 7) \div 8) * 8

\* ---------------------------------------------------------------- types

is_supported_numeric_class(class_type) ==
    class_type \in {MX_DOUBLE_CLASS, MX_SINGLE_CLASS, MX_UINT8_CLASS,
                    MX_UINT16_CLASS, MX_INT8_CLASS, MX_INT16_CLASS}

map_numeric_mi_type(mi_type) ==
    CASE mi_type = MI_DOUBLE -> [ok |-> TRUE, data_type |-> MAT_DATA_FLOAT64, element_size |-> 8]
      [] mi_type = MI_SINGLE -> [ok |-> TRUE, data_type |-> MAT_DATA_FLOAT32, element_size |-> 4]
      [] mi_type = MI_UINT8 -> [ok |-> TRUE, data_type |-> MAT_DATA_UINT8, element_size |-> 1]
      [] mi_type = MI_UINT16 -> [ok |-> TRUE, data_type |-> MAT_DATA_UINT16, element_size |-> 2]
      [] mi_type = MI_INT8 -> [ok |-> TRUE, data_type |-> MAT_DATA_INT8, element_size |-> 1]
      [] mi_type = MI_INT16 -> [ok |-> TRUE, data_type |-> MAT_DATA_INT16, element_size |-> 2]
      [] OTHER -> [ok |-> FALSE, data_type |-> MAT_DATA_FLOAT64, element_size |-> 0]

is_name_type(type) == type \in {MI_INT8, MI_UINT8, MI_UTF8, MI_UTF16, MI_UTF32}

\* The C string a char buffer holds: its bytes before the first NUL.
RECURSIVE CStr(_)
CStr(bytes) ==
    IF bytes = <<>> \/ Head(bytes) = 0 THEN <<>>
    ELSE <<Head(bytes)>> \o CStr(Tail(bytes))

\* strncpy(dst, src, cap - 1); dst[cap - 1] = 0, read back as a C string.
StrNCpy(src, cap) == IF Len(src) > cap - 1 THEN SubSeq(src, 1, cap - 1) ELSE src

\* A copy that drops the last byte of the name.
copy_name_short(payload, num_bytes, out_len) ==
    IF num_bytes = 0 THEN <<>>
    ELSE CStr(SubSeq(payload, 1, num_bytes - 1))

copy_name_from_element(payload, num_bytes, out_len) ==
    IF num_bytes = 0 THEN <<>>
    ELSE LET copy_len == IF num_bytes > out_len - 1 THEN out_len - 1 ELSE num_bytes
         IN CStr(SubSeq(payload, 1, copy_len))

\* --------------------------------------------------------------- decoder

\* The i-th (0-based) value of a dimensions payload is a positive number
\* that fits the size word.
DimValueOK(type, payload, i, little_endian) ==
    IF type \in {MI_INT32, MI_UINT32}
    THEN LET v == read_u32(payload, i * 4, little_endian)
         IN v # <<0, 0, 0, 0>> /\ v[4] < 128
    ELSE LET v == read_u64(payload, i * 8, little_endian)
         IN /\ v # <<0, 0, 0, 0, 0, 0, 0, 0>>
            /\ v[4] < 128 /\ v[5] = 0 /\ v[6] = 0 /\ v[7] = 0 /\ v[8] = 0

DimValue(type, payload, i, little_endian) ==
    IF type \in {MI_INT32, MI_UINT32}
    THEN Val32(read_u32(payload, i * 4, little_endian))
    ELSE Val32(SubSeq(read_u64(payload, i * 8, little_endian), 1, 4))

\* [ok, dims, rank]; on failure the caller's dims and rank are left alone.
parse_dimensions_element(type, num_bytes, payload, little_endian) ==
    LET elem_size == IF type \in {MI_INT32, MI_UINT32} THEN 4
                     ELSE IF type \in {MI_INT64, MI_UINT64} THEN 8 ELSE 0
        bad == [ok |-> FALSE, dims |-> <<1, 1, 1>>, rank |-> 0]
    IN IF elem_size = 0 THEN bad
       ELSE IF num_bytes = 0 \/ num_bytes % elem_size # 0 THEN bad
       ELSE LET rank == num_bytes \div elem_size
            IN IF rank = 0 \/ rank > 16 THEN bad
               ELSE IF \E i \in 0..(rank - 1) : ~DimValueOK(type, payload, i, little_endian)
               THEN bad
               ELSE [ok |-> TRUE,
                     dims |-> [i \in 1..3 |-> IF i <= rank
                                              THEN DimValue(type, payload, i - 1, little_endian)
                                              ELSE 1],
                     rank |-> rank]

NoElement == [ok |-> FALSE, type |-> 0, num_bytes |-> 0, payload_pos |-> 0, next_pos |-> 0]

\* A decoder that leaves the cursor at the padded end also when it lies
\* past the stream.
finish_long_element_unclamped(type, num_bytes, payload_pos, payload_end, next_pos, size) ==
    [ok |-> TRUE, type |-> type, num_bytes |-> num_bytes, payload_pos |-> payload_pos,
     next_pos |-> next_pos]

\* A decoder that insists on the final padding: the element fails when its
\* padded end lies past the stream.
finish_long_element_strict(type, num_bytes, payload_pos, payload_end, next_pos, size) ==
    IF next_pos > size
    THEN [ok |-> FALSE, type |-> 0, num_bytes |-> 0, payload_pos |-> 0, next_pos |-> 0]
    ELSE [ok |-> TRUE, type |-> type, num_bytes |-> num_bytes,
          payload_pos |-> payload_pos, next_pos |-> next_pos]

\* The end of read_element's long form: the cursor goes to next_pos, the
\* padded end, or to payload_end when the padded end lies past the stream.
finish_long_element(type, num_bytes, payload_pos, payload_end, next_pos, size) ==
    [ok |-> TRUE, type |-> type, num_bytes |-> num_bytes, payload_pos |-> payload_pos,
     next_pos |-> IF next_pos > size THEN payload_end ELSE next_pos]

\* The long form once the tag's two words are read: word0 the type, word1
\* the length.
read_long_element(word0, word1, size, payload_pos) ==
    IF ~payload_pos.ok THEN NoElement
    ELSE IF payload_pos.out > size \/ U32Gt(word1, size - payload_pos.out) THEN NoElement
    ELSE IF aligned8(Val32(word1)) = SIZE_MAX THEN NoElement
    ELSE IF ~checked_add_size(payload_pos.out, aligned8(Val32(word1))).ok THEN NoElement
    ELSE finish_long_element(Val32(word0), Val32(word1), payload_pos.out,
                             payload_pos.out + Val32(word1),
                             checked_add_size(payload_pos.out, aligned8(Val32(word1))).out,
                             size)

\* The element whose tag words are word0 and word1, read at pos.
read_tagged_element(word0, word1, size, pos) ==
    IF word0[3] # 0 \/ word0[4] # 0
    THEN IF word0[3] + 256 * word0[4] > 4 THEN NoElement
         ELSE [ok |-> TRUE, type |-> word0[1] + 256 * word0[2],
               num_bytes |-> word0[3] + 256 * word0[4],
               payload_pos |-> pos + 4, next_pos |-> pos + 8]
    ELSE read_long_element(word0, word1, size, checked_add_size(pos, 8))

\* One element at pos of the stream (data, size): [ok, type, num_bytes,
\* payload_pos, next_pos]; next_pos is the reader's cursor afterwards.
read_element(data, size, pos, little_endian) ==
    IF pos > size \/ size - pos < 8 THEN NoElement
    ELSE read_tagged_element(read_u32(data, pos, little_endian),
                             read_u32(data, pos + 4, little_endian), size, pos)

\* ------------------------------------------------------- matrix payload

\* The sub-reader's cursor and the locals of parse_matrix_payload, after
\* the memset and the initial assignments.
NewParse ==
    [pos |-> 0, has_flags |-> FALSE, has_dims |-> FALSE, has_name |-> FALSE,
     has_real_data |-> FALSE, supported |-> FALSE, name |-> <<>>,
     dims |-> <<1, 1, 1>>, rank |-> 0, data_type |-> MAT_DATA_FLOAT64,
     real_data |-> <<>>, real_data_bytes |-> 0, element_size |-> 0]

\* One turn of the while loop on the element e just read.
parse_step(st, e, payload, little_endian) ==
    LET s == [st EXCEPT !.pos = e.next_pos]
        view == Slice(payload, e.payload_pos, e.num_bytes)
    IN IF ~s.has_flags /\ e.type = MI_UINT32 /\ e.num_bytes >= 8
       THEN LET flags0 == read_u32(view, 0, little_endian)
                class_type == flags0[1]
                is_complex == (flags0[2] \div 8) % 2 = 1
            IN [s EXCEPT !.supported = ~is_complex /\ is_supported_numeric_class(class_type),
                         !.has_flags = TRUE]
       ELSE IF ~s.has_dims /\ e.type \in {MI_INT32, MI_UINT32, MI_INT64, MI_UINT64}
       THEN LET d == parse_dimensions_element(e.type, e.num_bytes, view, little_endian)
            IN IF d.ok
               THEN [s EXCEPT !.dims = d.dims, !.rank = d.rank, !.has_dims = TRUE]
               ELSE [s EXCEPT !.supported = FALSE, !.rank = 0, !.has_dims = TRUE]
       ELSE IF ~s.has_name /\ is_name_type(e.type)
       THEN [s EXCEPT !.name = copy_name_from_element(view, e.num_bytes, NAME_CAP),
                      !.has_name = TRUE]
       ELSE IF ~s.has_real_data /\ s.supported /\ s.has_flags
                /\ map_numeric_mi_type(e.type).ok
       THEN LET t == map_numeric_mi_type(e.type)
            IN [s EXCEPT !.data_type = t.data_type, !.element_size = t.element_size,
                         !.real_data = view, !.real_data_bytes = e.num_bytes,
                         !.has_real_data = TRUE]
       ELSE s

\* The while loop: [ok, st]; ok is FALSE when a sub-element fails to decode.
RECURSIVE parse_loop(_, _, _, _)
parse_loop(st, payload, payload_size, little_endian) ==
    IF st.pos + 8 <= payload_size
    THEN LET e == read_element(payload, payload_size, st.pos, little_endian)
         IN IF ~e.ok THEN [ok |-> FALSE, st |-> st]
            ELSE parse_loop(parse_step(st, e, payload, little_endian),
                            payload, payload_size, little_endian)
    ELSE [ok |-> TRUE, st |-> st]

\* The checks after the loop: whether the matrix stays supported.
parse_finish(st, oob) ==
    IF ~st.has_flags \/ ~st.has_dims THEN FALSE
    ELSE IF ~st.supported \/ ~st.has_real_data THEN FALSE
    ELSE LET expected_count == count_elements(st.dims, st.rank, oob)
         IN IF ~expected_count.ok THEN FALSE
            ELSE LET expected_bytes == checked_mul_size(expected_count.out, st.element_size)
                 IN IF ~expected_bytes.ok THEN FALSE
                    ELSE expected_bytes.out = st.real_data_bytes

\* What parse_matrix_payload leaves behind once its loop has ended as r
\* tells: [ok, matrix].
parse_result(r, oob) ==
    [ok |-> r.ok,
     matrix |-> [supported |-> IF r.ok THEN parse_finish(r.st, oob) ELSE r.st.supported,
                 name |-> r.st.name, dims |-> r.st.dims, rank |-> r.st.rank,
                 data_type |-> r.st.data_type, real_data |-> r.st.real_data,
                 real_data_bytes |-> r.st.real_data_bytes,
                 element_size |-> r.st.element_size]]

\* [ok, matrix]: matrix is the ParsedMatrix left in *out_matrix.
parse_matrix_payload(payload, payload_size, little_endian, oob) ==
    parse_result(parse_loop(NewParse, payload, payload_size, little_endian), oob)

\* ----------------------------------------------------------- decompression

\* zlib's Adler-32 of a byte string, as its two 16-bit halves: a starts at 1
\* and adds each byte, b starts at 0 and adds each a, so that byte i of n is
\* added to b n - i + 1 times; 65521 is the modulus.
Adler32(bytes) ==
    [a |-> (1 + SumOf(bytes)) % 65521,
     b |-> (Len(bytes)
            + SumOf([i \in 1..Len(bytes) |-> (Len(bytes) - i + 1) * bytes[i]])) % 65521]

\* The deflate blocks from offset pos on: stored blocks are decoded (LEN,
\* its complement, LEN raw bytes), the last one followed by the big-endian
\* Adler-32 of the output.  Any other block type, a bad complement, a bad
\* checksum or an input that ends early is a stream inflate() does not end
\* with Z_STREAM_END.  (Huffman-coded blocks are outside this model: the
\* streams it is given hold stored blocks only.)
RECURSIVE inflate_blocks(_, _, _)
inflate_blocks(input, pos, out) ==
    IF Len(input) - pos < 5 THEN [ok |-> FALSE, out |-> <<>>]
    ELSE LET hdr == input[pos + 1]
             len == input[pos + 2] + 256 * input[pos + 3]
             nlen == input[pos + 4] + 256 * input[pos + 5]
         IN IF (hdr \div 2) % 4 # 0 \/ len + nlen # 65535
               \/ Len(input) - (pos + 5) < len
            THEN [ok |-> FALSE, out |-> <<>>]
            ELSE LET got == out \o Slice(input, pos + 5, len)
                     end == pos + 5 + len
                 IN IF hdr % 2 = 0 THEN inflate_blocks(input, end, got)
                    ELSE IF Len(input) - end < 4 THEN [ok |-> FALSE, out |-> <<>>]
                    ELSE LET ck == Adler32(got)
                         IN IF Slice(input, end, 4) =
                                  <<ck.b \div 256, ck.b % 256, ck.a \div 256, ck.a % 256>>
                            THEN [ok |-> TRUE, out |-> got]
                            ELSE [ok |-> FALSE, out |-> <<>>]

\* inflate() on a whole zlib stream: the two header bytes, then the blocks.
inflate(input) ==
    IF Len(input) < 2 THEN [ok |-> FALSE, out |-> <<>>]
    ELSE LET cmf == input[1]
             flg == input[2]
         IN IF cmf % 16 # 8 \/ cmf \div 16 > 7 \/ (cmf * 256 + flg) % 31 # 0
               \/ (flg \div 32) % 2 = 1
            THEN [ok |-> FALSE, out |-> <<>>]
            ELSE inflate_blocks(input, 2, <<>>)

\* What decompress_zlib returns once inflate() has ended as r tells; the
\* output buffer was allocated before, and was freed again if r is a failure.
inflated(r) == [ok |-> r.ok, out |-> r.out, allocated |-> TRUE]

\* [ok, out, allocated]: the inflated buffer and (Len(out)) its size;
\* allocated is not in the code: it says that the call got as far as
\* allocating the output buffer.
decompress_zlib(input, input_size) ==
    IF input_size = 0 THEN [ok |-> FALSE, out |-> <<>>, allocated |-> FALSE]
    ELSE inflated(inflate(SubSeq(input, 1, input_size)))

\* ------------------------------------------------------ what a call did
\*
\* Not in the code: the contexts carry a log of what the call did to its
\* buffers, and the number of the visitor's allocation that the heap
\* refuses (0: none).  An event is [ev, depth, pos, next_pos, size,
\* payload_pos, num_bytes]: "acquire" and "release" of the buffer of the
\* stream at the given nesting depth (0: the file), "decode" for a call of
\* read_element on that stream with the cursor before and after, "visit"
\* for a visitor call on a matrix of that stream.

Event(ev, depth) ==
    [ev |-> ev, depth |-> depth, pos |-> 0, next_pos |-> 0, size |-> 0,
     payload_pos |-> 0, num_bytes |-> 0]

DecodeEvent(e, pos, size, depth) ==
    [ev |-> IF e.ok THEN "decode" ELSE "decode_failed", depth |-> depth, pos |-> pos,
     next_pos |-> e.next_pos, size |-> size, payload_pos |-> e.payload_pos,
     num_bytes |-> e.num_bytes]

Logged(ctx, event) == [ctx EXCEPT !.log = Append(@, event)]

\* malloc or realloc in a visitor: whether it returns NULL, and the context
\* once it has been called.
AllocFails(ctx) == ctx.allocs + 1 = ctx.fail_at

Allocated(ctx) == [ctx EXCEPT !.allocs = @ + 1]

\* ---------------------------------------------------------------- visitors

swap_elements_in_place(data, count, elem_size) ==
    IF count = 0 \/ elem_size <= 1 THEN data
    ELSE [k \in 1..Len(data) |->
            IF k <= count * elem_size
            THEN LET i == (k - 1) \div elem_size
                     j == (k - 1) % elem_size
                 IN data[i * elem_size + (elem_size - 1 - j) + 1]
            ELSE data[k]]

\* A MatCube3D; isnull says that data is NULL.
ClearedCube ==
    [isnull |-> TRUE, data |-> <<>>, rank |-> 0, dims |-> <<0, 0, 0>>,
     data_type |-> MAT_DATA_FLOAT64]

clear_cube(cube) == ClearedCube

free_cube(cube) == [cube EXCEPT !.isnull = TRUE, !.data = <<>>]

\* The LoadContext of a load entry point; has_target: target_name is not
\* NULL; has_out_name: out_name is not NULL.
NewLoadContext(target_name, has_target, first_only, expected_rank, out_cube, out_name, has_out_name, out_name_len) ==
    [target_name |-> target_name, has_target |-> has_target,
     first_only |-> first_only, expected_rank |-> expected_rank,
     out_cube |-> out_cube, out_name |-> out_name,
     has_out_name |-> has_out_name, out_name_len |-> out_name_len,
     found |-> FALSE, fail_at |-> 0, allocs |-> 0, log |-> <<>>]

\* A comparison that finds every two names equal.
strcmp_equal(a, b) == 0

\* 0 when the C strings are the same.
strcmp(a, b) == IF a = b THEN 0 ELSE 1

\* A visitor that goes on after a match: the last match is what it leaves.
load_visitor_last_wins(matrix, little_endian, ctx, oob) ==
    IF matrix.rank # ctx.expected_rank THEN [ok |-> TRUE, stop |-> FALSE, ctx |-> ctx]
    ELSE IF ~ctx.first_only /\ ctx.has_target /\ strcmp(matrix.name, ctx.target_name) # 0
    THEN [ok |-> TRUE, stop |-> FALSE, ctx |-> ctx]
    ELSE LET element_count == count_elements(matrix.dims, matrix.rank, oob)
             byte_count == checked_mul_size(element_count.out, matrix.element_size)
         IN IF ~element_count.ok \/ ~byte_count.ok
               \/ byte_count.out # matrix.real_data_bytes
            THEN [ok |-> FALSE, stop |-> FALSE, ctx |-> ctx]
            ELSE IF AllocFails(ctx)
            THEN [ok |-> FALSE, stop |-> FALSE, ctx |-> Allocated(ctx)]
            ELSE LET copy == SubSeq(matrix.real_data, 1, byte_count.out)
                     data == IF ~little_endian /\ matrix.element_size > 1
                             THEN swap_elements_in_place(copy, element_count.out,
                                                         matrix.element_size)
                             ELSE copy
                 IN [ok |-> TRUE, stop |-> FALSE,
                     ctx |-> [ctx EXCEPT
                        !.out_cube = [isnull |-> FALSE, data |-> data,
                                      rank |-> ctx.expected_rank,
                                      dims |-> <<matrix.dims[1], matrix.dims[2],
                                                 IF ctx.expected_rank = 3
                                                 THEN matrix.dims[3] ELSE 1>>,
                                      data_type |-> matrix.data_type],
                        !.out_name = IF ctx.has_out_name /\ ctx.out_name_len > 0
                                     THEN StrNCpy(matrix.name, ctx.out_name_len)
                                     ELSE ctx.out_name,
                        !.found = TRUE,
                        !.allocs = @ + 1]]

\* [ok, stop, ctx]
load_visitor(matrix, little_endian, ctx, oob) ==
    IF ctx.found THEN [ok |-> TRUE, stop |-> TRUE, ctx |-> ctx]
    ELSE IF matrix.rank # ctx.expected_rank THEN [ok |-> TRUE, stop |-> FALSE, ctx |-> ctx]
    ELSE IF ~ctx.first_only /\ ctx.has_target /\ strcmp(matrix.name, ctx.target_name) # 0
    THEN [ok |-> TRUE, stop |-> FALSE, ctx |-> ctx]
    ELSE LET element_count == count_elements(matrix.dims, matrix.rank, oob)
             byte_count == checked_mul_size(element_count.out, matrix.element_size)
         IN IF ~element_count.ok \/ ~byte_count.ok
               \/ byte_count.out # matrix.real_data_bytes
            THEN [ok |-> FALSE, stop |-> FALSE, ctx |-> ctx]
            ELSE IF AllocFails(ctx)
            THEN [ok |-> FALSE, stop |-> FALSE, ctx |-> Allocated(ctx)]
            ELSE LET copy == SubSeq(matrix.real_data, 1, byte_count.out)
                     data == IF ~little_endian /\ matrix.element_size > 1
                             THEN swap_elements_in_place(copy, element_count.out,
                                                         matrix.element_size)
                             ELSE copy
                 IN [ok |-> TRUE, stop |-> TRUE,
                     ctx |-> [ctx EXCEPT
                        !.out_cube = [isnull |-> FALSE, data |-> data,
                                      rank |-> ctx.expected_rank,
                                      dims |-> <<matrix.dims[1], matrix.dims[2],
                                                 IF ctx.expected_rank = 3
                                                 THEN matrix.dims[3] ELSE 1>>,
                                      data_type |-> matrix.data_type],
                        !.out_name = IF ctx.has_out_name /\ ctx.out_name_len > 0
                                     THEN StrNCpy(matrix.name, ctx.out_name_len)
                                     ELSE ctx.out_name,
                        !.found = TRUE,
                        !.allocs = @ + 1]]

\* "unnamed"
UnnamedName == <<117, 110, 110, 97, 109, 101, 100>>

NewListContext(expected_rank) ==
    [list |-> <<>>, count |-> 0, capacity |-> 0, expected_rank |-> expected_rank,
     fail_at |-> 0, allocs |-> 0, log |-> <<>>]

\* A list visitor that takes matrices of every rank.
list_visitor_any_rank(matrix, little_endian, ctx, oob) ==
    [ok |-> TRUE, stop |-> FALSE,
     ctx |-> [ctx EXCEPT
        !.list = Append(ctx.list,
                        [name |-> IF matrix.name # <<>> THEN matrix.name ELSE UnnamedName,
                         dims |-> <<matrix.dims[1], matrix.dims[2],
                                    IF ctx.expected_rank = 3 THEN matrix.dims[3] ELSE 1>>,
                         data_type |-> matrix.data_type]),
        !.count = ctx.count + 1,
        !.capacity = IF ctx.capacity = 0 THEN 8 ELSE ctx.capacity]]

\* A visitor that leaves the type of the slot as memset has set it.
list_visitor_untyped(matrix, little_endian, ctx, oob) ==
    IF matrix.rank # ctx.expected_rank THEN [ok |-> TRUE, stop |-> FALSE, ctx |-> ctx]
    ELSE IF ctx.count = ctx.capacity /\ AllocFails(ctx)
    THEN [ok |-> FALSE, stop |-> FALSE, ctx |-> Allocated(ctx)]
    ELSE LET new_capacity == IF ctx.count = ctx.capacity
                             THEN (IF ctx.capacity = 0 THEN 8 ELSE ctx.capacity * 2)
                             ELSE ctx.capacity
             slot == [name |-> IF matrix.name # <<>>
                               THEN StrNCpy(matrix.name, NAME_CAP)
                               ELSE StrNCpy(UnnamedName, NAME_CAP),
                      dims |-> <<matrix.dims[1], matrix.dims[2],
                                 IF ctx.expected_rank = 3 THEN matrix.dims[3] ELSE 1>>,
                      data_type |-> MAT_DATA_FLOAT64]
         IN [ok |-> TRUE, stop |-> FALSE,
             ctx |-> [ctx EXCEPT !.list = Append(ctx.list, slot),
                                 !.count = ctx.count + 1,
                                 !.capacity = new_capacity,
                                 !.allocs = IF ctx.count = ctx.capacity THEN @ + 1 ELSE @]]

\* [ok, stop, ctx]
list_visitor(matrix, little_endian, ctx, oob) ==
    IF matrix.rank # ctx.expected_rank THEN [ok |-> TRUE, stop |-> FALSE, ctx |-> ctx]
    ELSE IF ctx.count = ctx.capacity /\ AllocFails(ctx)
    THEN [ok |-> FALSE, stop |-> FALSE, ctx |-> Allocated(ctx)]
    ELSE LET new_capacity == IF ctx.count = ctx.capacity
                             THEN (IF ctx.capacity = 0 THEN 8 ELSE ctx.capacity * 2)
                             ELSE ctx.capacity
             slot == [name |-> IF matrix.name # <<>>
                               THEN StrNCpy(matrix.name, NAME_CAP)
                               ELSE StrNCpy(UnnamedName, NAME_CAP),
                      dims |-> <<matrix.dims[1], matrix.dims[2],
                                 IF ctx.expected_rank = 3 THEN matrix.dims[3] ELSE 1>>,
                      data_type |-> matrix.data_type]
         IN [ok |-> TRUE, stop |-> FALSE,
             ctx |-> [ctx EXCEPT !.list = Append(ctx.list, slot),
                                 !.count = ctx.count + 1,
                                 !.capacity = new_capacity,
                                 !.allocs = IF ctx.count = ctx.capacity THEN @ + 1 ELSE @]]

\* The visitor function pointer: "load" is load_visitor, "list" list_visitor.
CallVisitor(visitor, matrix, little_endian, ctx, oob) ==
    IF visitor = "load" THEN load_visitor(matrix, little_endian, ctx, oob)
    ELSE list_visitor(matrix, little_endian, ctx, oob)

\* ------------------------------------------------------------------ walker

\* visited is not in the code: it records, in order, every ParsedMatrix
\* handed to the visitor, with the nesting depth of the stream it was found
\* in.
RECURSIVE scan_elements(_, _, _, _, _, _, _, _, _)
RECURSIVE scan_loop(_, _, _, _, _, _, _, _, _)

\* How the loop body goes on after a visitor or a nested scan has returned
\* r = [ok, stop, ctx]: [return, ok, stop, ctx, visited]; return says that
\* the body returns from scan_elements, with ok and stop, instead of going
\* round the loop.
scan_outcome(r, visited) ==
    [return |-> ~r.ok \/ r.stop, ok |-> r.ok, stop |-> r.ok /\ r.stop,
     ctx |-> r.ctx, visited |-> visited]

\* A loop body that does not hear the stop of a nested scan.
scan_nested_deaf(r) == scan_outcome([r EXCEPT !.stop = FALSE], r.visited)

\* A loop body that goes on after a nested scan has failed.
scan_nested_lenient(r) == scan_outcome([r EXCEPT !.ok = TRUE], r.visited)

\* A nested scan's result r = [ok, stop, ctx, visited] as the outcome of the
\* loop body that ran it.
scan_nested(r) == scan_outcome(r, r.visited)

\* A walker that hands every matrix it could parse to the visitor.
scan_matrix_any(p, little_endian, visitor, ctx, oob, visited, depth) ==
    IF ~p.ok
    THEN [return |-> FALSE, ok |-> TRUE, stop |-> FALSE, ctx |-> ctx,
          visited |-> visited]
    ELSE scan_outcome(CallVisitor(visitor, p.matrix, little_endian,
                                  Logged(ctx, Event("visit", depth)), oob),
                      Append(visited, [matrix |-> p.matrix, depth |-> depth]))

\* The miMATRIX branch of the loop body, p being what parse_matrix_payload
\* returned.
scan_matrix(p, little_endian, visitor, ctx, oob, visited, depth) ==
    IF ~p.ok \/ ~p.matrix.supported
    THEN [return |-> FALSE, ok |-> TRUE, stop |-> FALSE, ctx |-> ctx,
          visited |-> visited]
    ELSE scan_outcome(CallVisitor(visitor, p.matrix, little_endian,
                                  Logged(ctx, Event("visit", depth)), oob),
                      Append(visited, [matrix |-> p.matrix, depth |-> depth]))

\* A walker that inflates a compressed element and steps over what it holds.
scan_compressed_unopened(z, little_endian, visitor, ctx, oob, visited, depth) ==
    [return |-> ~z.ok, ok |-> z.ok, stop |-> FALSE, ctx |-> ctx, visited |-> visited]

\* A walker that frees the inflated buffer only when the nested scan has
\* succeeded.
scan_freed_on_success(r, depth) ==
    IF r.ok THEN [r EXCEPT !.ctx = Logged(@, Event("release", depth))] ELSE r

\* free(decompressed) after the nested scan has returned r.
scan_freed(r, depth) == [r EXCEPT !.ctx = Logged(@, Event("release", depth))]

\* The miCOMPRESSED branch of the loop body, z being what decompress_zlib
\* returned.
scan_compressed(z, little_endian, visitor, ctx, oob, visited, depth) ==
    IF ~z.ok
    THEN [return |-> TRUE, ok |-> FALSE, stop |-> FALSE,
          ctx |-> IF z.allocated
                  THEN Logged(Logged(ctx, Event("acquire", depth + 1)),
                              Event("release", depth + 1))
                  ELSE ctx,
          visited |-> visited]
    ELSE scan_nested(scan_freed(scan_elements(z.out, Len(z.out), 0, little_endian, visitor,
                                              Logged(ctx, Event("acquire", depth + 1)),
                                              oob, visited, depth + 1),
                                depth + 1))

\* The loop body on the element e it has read.
scan_body(e, data, little_endian, visitor, ctx, oob, visited, depth) ==
    IF e.type = MI_MATRIX
    THEN scan_matrix(parse_matrix_payload(Slice(data, e.payload_pos, e.num_bytes),
                                          e.num_bytes, little_endian, oob),
                     little_endian, visitor, ctx, oob, visited, depth)
    ELSE IF e.type = MI_COMPRESSED
    THEN scan_compressed(decompress_zlib(Slice(data, e.payload_pos, e.num_bytes),
                                         e.num_bytes),
                         little_endian, visitor, ctx, oob, visited, depth)
    ELSE [return |-> FALSE, ok |-> TRUE, stop |-> FALSE, ctx |-> ctx,
          visited |-> visited]

\* The loop after its body has run as b tells, the cursor being at next_pos.
scan_continue(b, data, data_size, next_pos, little_endian, visitor, oob, depth) ==
    IF b.return
    THEN [ok |-> b.ok, stop |-> b.stop, ctx |-> b.ctx, visited |-> b.visited]
    ELSE scan_loop(data, data_size, next_pos, little_endian, visitor, b.ctx, oob,
                   b.visited, depth)

\* A walker for which an element that cannot be read is an error.
scan_turn_strict(e, data, data_size, little_endian, visitor, ctx, oob, visited, depth) ==
    IF ~e.ok
    THEN [ok |-> FALSE, stop |-> FALSE, ctx |-> ctx, visited |-> visited]
    ELSE scan_continue(scan_body(e, data, little_endian, visitor, ctx, oob,
                                 visited, depth),
                       data, data_size, e.next_pos, little_endian, visitor, oob, depth)

\* One turn of the loop on the element e read at the cursor.
scan_turn(e, data, data_size, little_endian, visitor, ctx, oob, visited, depth) ==
    IF ~e.ok
    THEN [ok |-> TRUE, stop |-> FALSE, ctx |-> ctx, visited |-> visited]
    ELSE scan_continue(scan_body(e, data, little_endian, visitor, ctx, oob,
                                 visited, depth),
                       data, data_size, e.next_pos, little_endian, visitor, oob, depth)

\* The turn of the loop in which read_element, called with the cursor at
\* pos, has returned e.
scan_read(e, data, data_size, pos, little_endian, visitor, ctx, oob, visited, depth) ==
    scan_turn(e, data, data_size, little_endian, visitor,
              Logged(ctx, DecodeEvent(e, pos, data_size, depth)), oob, visited, depth)

\* The while loop of scan_elements from cursor pos on: [ok, stop, ctx,
\* visited].
scan_loop(data, data_size, pos, little_endian, visitor, ctx, oob, visited, depth) ==
    IF ~(pos + 8 <= data_size)
    THEN [ok |-> TRUE, stop |-> FALSE, ctx |-> ctx, visited |-> visited]
    ELSE scan_read(read_element(data, data_size, pos, little_endian),
                   data, data_size, pos, little_endian, visitor, ctx, oob, visited, depth)

scan_elements(data, data_size, start_offset, little_endian, visitor, ctx, oob, visited, depth) ==
    IF start_offset > data_size
    THEN [ok |-> FALSE, stop |-> FALSE, ctx |-> ctx, visited |-> visited]
    ELSE scan_loop(data, data_size, start_offset, little_endian, visitor, ctx, oob,
                   visited, depth)

\* ------------------------------------------------------------- file loader

\* A path of the file system: whether a file is there, and its bytes.
NoFile == [exists |-> FALSE, bytes |-> <<>>]

\* [ok, data, size, little_endian, log]; the buffer is the whole file,
\* mapped or read.  log is not in the code: it tells of the buffer that was
\* held, and let go again where the byte-order mark is none.
load_file(has_path, file) ==
    LET bad == [ok |-> FALSE, data |-> <<>>, size |-> 0, little_endian |-> TRUE,
                log |-> <<>>]
    IN IF ~has_path \/ ~file.exists THEN bad
       ELSE IF Len(file.bytes) < HEADER_SIZE THEN bad
       ELSE LET endian0 == file.bytes[127]
                endian1 == file.bytes[128]
            IN IF endian0 = 73 /\ endian1 = 77
               THEN [ok |-> TRUE, data |-> file.bytes, size |-> Len(file.bytes),
                     little_endian |-> TRUE, log |-> <<Event("acquire", 0)>>]
               ELSE IF endian0 = 77 /\ endian1 = 73
               THEN [ok |-> TRUE, data |-> file.bytes, size |-> Len(file.bytes),
                     little_endian |-> FALSE, log |-> <<Event("acquire", 0)>>]
               ELSE [bad EXCEPT !.log = <<Event("acquire", 0), Event("release", 0)>>]

\* -------------------------------------------------------------- read API

\* The context an entry point hands to the scan of the file f: the file
\* buffer is held.
Started(ctx, f, fail_at) == [ctx EXCEPT !.fail_at = fail_at, !.log = f.log]

\* The log of a call once release_file has run.
Released(ctx) == Append(ctx.log, Event("release", 0))

\* What a load entry point returns once the scan has ended as r tells.
load_return(r) ==
    IF ~r.ok
    THEN [ret |-> FALSE, cube |-> clear_cube(free_cube(r.ctx.out_cube)),
          name |-> r.ctx.out_name, visited |-> r.visited, log |-> Released(r.ctx)]
    ELSE [ret |-> r.ctx.found, cube |-> r.ctx.out_cube,
          name |-> r.ctx.out_name, visited |-> r.visited, log |-> Released(r.ctx)]

\* The three load entry points share their body but for the LoadContext.
\* args: [has_path, has_var, has_cube, has_out_name, var, cube, name,
\* fail_at]: which pointers are not NULL, the requested name, what the
\* caller's cube and name buffer hold before the call, and the allocation
\* the heap refuses.  [ret, cube, name, visited, log].
load_entry(args, file, need_var, first_only, expected_rank, oob) ==
    IF ~args.has_path \/ (need_var /\ ~args.has_var) \/ ~args.has_cube
    THEN [ret |-> FALSE, cube |-> args.cube, name |-> args.name, visited |-> <<>>,
          log |-> <<>>]
    ELSE LET f == load_file(args.has_path, file)
         IN IF ~f.ok
            THEN [ret |-> FALSE, cube |-> clear_cube(args.cube), name |-> args.name,
                  visited |-> <<>>, log |-> f.log]
            ELSE load_return(scan_elements(f.data, f.size, HEADER_SIZE, f.little_endian,
                     "load",
                     Started(NewLoadContext(args.var, need_var, first_only, expected_rank,
                                            clear_cube(args.cube), args.name,
                                            args.has_out_name, NAME_CAP),
                             f, args.fail_at),
                     oob, <<>>, 0))

load_first_3d_double_cube(args, file, oob) == load_entry(args, file, FALSE, TRUE, 3, oob)

load_cube_by_name(args, file, oob) == load_entry(args, file, TRUE, FALSE, 3, oob)

load_2d_array_by_name(args, file, oob) == load_entry(args, file, TRUE, FALSE, 2, oob)

\* A descriptor-list output: *outList (NULL or the array) and *outCount.
NullList == [isnull |-> TRUE, items |-> <<>>, count |-> 0]

\* What a list entry point returns once the scan has ended as r tells.
list_return(r) ==
    IF ~r.ok
    THEN [ret |-> FALSE, list |-> NullList, visited |-> r.visited, log |-> Released(r.ctx)]
    ELSE [ret |-> TRUE,
          list |-> [isnull |-> r.ctx.capacity = 0, items |-> r.ctx.list,
                    count |-> r.ctx.count],
          visited |-> r.visited, log |-> Released(r.ctx)]

\* args: [has_path, has_list, has_count, list, fail_at]: list is what
\* *outList and *outCount hold before the call.  [ret, list, visited, log].
list_entry(args, file, expected_rank, oob) ==
    IF ~args.has_path \/ ~args.has_list \/ ~args.has_count
    THEN [ret |-> FALSE, list |-> args.list, visited |-> <<>>, log |-> <<>>]
    ELSE LET f == load_file(args.has_path, file)
         IN IF ~f.ok
            THEN [ret |-> FALSE, list |-> NullList, visited |-> <<>>, log |-> f.log]
            ELSE list_return(scan_elements(f.data, f.size, HEADER_SIZE, f.little_endian,
                                           "list",
                                           Started(NewListContext(expected_rank), f,
                                                   args.fail_at),
                                           oob, <<>>, 0))

list_mat_cube_variables(args, file, oob) == list_entry(args, file, 3, oob)

list_mat_2d_variables(args, file, oob) == list_entry(args, file, 2, oob)

\* ----------------------------------------------------------------- emitter

write_u16_le(value, hostLE) ==
    MemBytes(IF hostLE THEN value ELSE bswap16(value), hostLE)

write_u32_le(value, hostLE) ==
    MemBytes(IF hostLE THEN U32(value) ELSE bswap32(U32(value)), hostLE)

\* A writer that leaves the padding out.
write_padding_none(padding) == <<>>

write_padding(padding) == Zeros(padding)

write_tag(type, num_bytes, hostLE) ==
    write_u32_le(type, hostLE) \o write_u32_le(num_bytes, hostLE)

map_write_type(data_type) ==
    CASE data_type = MAT_DATA_FLOAT64 ->
            [ok |-> TRUE, mx_class |-> MX_DOUBLE_CLASS, mi_type |-> MI_DOUBLE, element_size |-> 8]
      [] data_type = MAT_DATA_FLOAT32 ->
            [ok |-> TRUE, mx_class |-> MX_SINGLE_CLASS, mi_type |-> MI_SINGLE, element_size |-> 4]
      [] data_type = MAT_DATA_UINT8 ->
            [ok |-> TRUE, mx_class |-> MX_UINT8_CLASS, mi_type |-> MI_UINT8, element_size |-> 1]
      [] data_type = MAT_DATA_UINT16 ->
            [ok |-> TRUE, mx_class |-> MX_UINT16_CLASS, mi_type |-> MI_UINT16, element_size |-> 2]
      [] data_type = MAT_DATA_INT8 ->
            [ok |-> TRUE, mx_class |-> MX_INT8_CLASS, mi_type |-> MI_INT8, element_size |-> 1]
      [] data_type = MAT_DATA_INT16 ->
            [ok |-> TRUE, mx_class |-> MX_INT16_CLASS, mi_type |-> MI_INT16, element_size |-> 2]
      [] OTHER -> [ok |-> FALSE, mx_class |-> 0, mi_type |-> 0, element_size |-> 0]

\* x > UINT32_MAX
AboveU32(x) == x \div 65536 > 65535

\* The bytes written for the data: data is the caller's memory.
write_data_le(data, element_count, element_size, hostLE) ==
    LET byte_count == element_count * element_size
    IN IF hostLE \/ element_size = 1 THEN SubSeq(data, 1, byte_count)
       ELSE swap_elements_in_place(SubSeq(data, 1, byte_count), element_count, element_size)

\* The dimension values written before the loop returns: all of them, or
\* those before the first one above INT32_MAX.
RECURSIVE write_dims(_, _, _, _)
write_dims(dims, rank, i, hostLE) ==
    IF i > rank THEN [ok |-> TRUE, bytes |-> <<>>]
    ELSE IF dims[i] > INT32_MAX THEN [ok |-> FALSE, bytes |-> <<>>]
    ELSE LET rest == write_dims(dims, rank, i + 1, hostLE)
         IN [ok |-> rest.ok, bytes |-> write_u32_le(dims[i], hostLE) \o rest.bytes]

\* [ok, bytes]: bytes is what reached the file, also when the call fails
\* half way.  name is a C string, data the caller's memory.
write_numeric_matrix(name, dims, rank, data_type, data, hostLE) ==
    LET none == [ok |-> FALSE, bytes |-> <<>>]
        t == map_write_type(data_type)
        element_count == count_elements(dims, rank, 0)
        raw_data_bytes == checked_mul_size(element_count.out, t.element_size)
    IN IF rank <= 0 \/ ~t.ok \/ ~element_count.ok \/ ~raw_data_bytes.ok THEN none
       ELSE IF AboveU32(raw_data_bytes.out) THEN none
       ELSE LET data_bytes == raw_data_bytes.out
                data_pad == aligned8(data_bytes) - data_bytes
                name_bytes == Len(name)
                name_pad == aligned8(name_bytes) - name_bytes
                dims_bytes == rank * 4
                dims_pad == aligned8(dims_bytes) - dims_bytes
                matrix_bytes == 16 + (8 + dims_bytes + dims_pad)
                                   + (8 + name_bytes + name_pad)
                                   + (8 + data_bytes + data_pad)
                d == write_dims(dims, rank, 1, hostLE)
                upto_dims == write_tag(MI_MATRIX, matrix_bytes, hostLE)
                             \o write_tag(MI_UINT32, 8, hostLE)
                             \o write_u32_le(t.mx_class, hostLE)
                             \o write_u32_le(0, hostLE)
                             \o write_tag(MI_INT32, dims_bytes, hostLE)
                             \o d.bytes
            IN IF AboveU32(matrix_bytes) THEN none
               ELSE IF ~d.ok THEN [ok |-> FALSE, bytes |-> upto_dims]
               ELSE [ok |-> TRUE,
                     bytes |-> upto_dims
                               \o write_padding(dims_pad)
                               \o write_tag(MI_INT8, name_bytes, hostLE)
                               \o name
                               \o write_padding(name_pad)
                               \o write_tag(t.mi_type, data_bytes, hostLE)
                               \o write_data_le(data, element_count.out, t.element_size, hostLE)
                               \o write_padding(data_pad)]

\* "MATLAB 5.0 MAT-file, Platform: macOS, Created by HSIView"
HeaderText ==
    <<
       77, 65, 84, 76, 65, 66, 32, 53, 46, 48, 32, 77, 65, 84, 45, 102, 105,
       108, 101, 44, 32, 80, 108, 97, 116, 102, 111, 114, 109, 58, 32, 109,
       97, 99, 79, 83, 44, 32, 67, 114, 101, 97, 116, 101, 100, 32, 98, 121,
       32, 72, 83, 73, 86, 105, 101, 119 >>

write_mat_header(hostLE) ==
    [i \in 1..116 |-> IF i <= Len(HeaderText) THEN HeaderText[i] ELSE 32]
    \o Zeros(8)
    \o write_u16_le(<<0, 1>>, hostLE)
    \o <<73, 77>>

\* args: [has_path, has_var, has_cube, var, cube].  [ret, file]: file is the
\* path's content after the call.
save_3d_cube(args, file, hostLE) ==
    IF ~args.has_path \/ ~args.has_var \/ ~args.has_cube \/ args.cube.isnull
    THEN [ret |-> FALSE, file |-> file]
    ELSE IF args.cube.rank # 3 THEN [ret |-> FALSE, file |-> file]
    ELSE LET m == write_numeric_matrix(args.var, args.cube.dims, 3,
                                       args.cube.data_type, args.cube.data, hostLE)
         IN [ret |-> m.ok,
             file |-> [exists |-> TRUE, bytes |-> write_mat_header(hostLE) \o m.bytes]]

\* An append that starts the file anew.
save_wavelengths_anew(args, file, hostLE) ==
    IF ~args.has_path \/ ~args.has_var \/ ~args.has_data \/ args.count = 0
    THEN [ret |-> FALSE, file |-> file]
    ELSE IF ~file.exists THEN [ret |-> FALSE, file |-> file]
    ELSE [ret |-> TRUE,
          file |-> [exists |-> TRUE,
                    bytes |-> write_mat_header(hostLE)
                              \o write_numeric_matrix(args.var, <<args.count, 1>>, 2,
                                                      MAT_DATA_FLOAT64, args.data,
                                                      hostLE).bytes]]

\* args: [has_path, has_var, has_data, var, data, count].
\* save_wavelengths without the seek to the end: the element is written
\* over the start of the file.
save_wavelengths_unseeked(args, file, hostLE) ==
    IF ~args.has_path \/ ~args.has_var \/ ~args.has_data \/ args.count = 0
    THEN [ret |-> FALSE, file |-> file]
    ELSE IF ~file.exists THEN [ret |-> FALSE, file |-> file]
    ELSE LET m == write_numeric_matrix(args.var, <<args.count, 1>>, 2,
                                       MAT_DATA_FLOAT64, args.data, hostLE)
         IN [ret |-> m.ok,
             file |-> [exists |-> TRUE,
                       bytes |-> m.bytes
                                 \o SubSeq(file.bytes, Len(m.bytes) + 1, Len(file.bytes))]]

save_wavelengths(args, file, hostLE) ==
    IF ~args.has_path \/ ~args.has_var \/ ~args.has_data \/ args.count = 0
    THEN [ret |-> FALSE, file |-> file]
    ELSE IF ~file.exists THEN [ret |-> FALSE, file |-> file]
    ELSE LET m == write_numeric_matrix(args.var, <<args.count, 1>>, 2,
                                       MAT_DATA_FLOAT64, args.data, hostLE)
         IN [ret |-> m.ok,
             file |-> [exists |-> TRUE, bytes |-> file.bytes \o m.bytes]]

\* ===================================================================
\* The state machine.
\*
\* One path of the file system is followed.  disk is the file at the path;
\* call is the last call of the library: its arguments, the host it ran
\* on, its return value and what it left in its outputs.  saved and plan
\* are not program state: saved remembers what the successful saves were
\* given (the values by the seed of their pattern), plan how a file put at
\* the path by another program was laid out.  call.visited and call.log are
\* kept only where a step asks for the trace; call.before is the file
\* before the call, kept by the steps that say so.  Calls are made one at a time: a call
\* is made when the outputs of the one before have been released.
\* ===================================================================

VARIABLES disk, call, saved, plan

vars == <<disk, call, saved, plan>>

\* ------------------------------------------------------------ inputs

\* "cube", "wl"
NameCube == <<99, 117, 98, 101>>

NameWl == <<119, 108>>

DataTypes == {MAT_DATA_FLOAT64, MAT_DATA_FLOAT32, MAT_DATA_UINT8,
              MAT_DATA_UINT16, MAT_DATA_INT8, MAT_DATA_INT16}

DimValues == {1, 3, 7}

WlCounts == {1, 5, 128}

\* How many wavelength vectors are appended to one file.
MaxAppends == 1

ElementSize(data_type) == map_write_type(data_type).element_size

\* n bytes, no two neighbours equal: the values of a cube or vector, as the
\* little-endian byte string of its elements.
Pattern(n, seed) == [k \in 1..n |-> (seed + 37 * k) % 256]

\* The memory of a host that holds the elements whose little-endian byte
\* string is le_bytes, and back: a big-endian host stores each element
\* reversed.
HostMemory(le_bytes, elem_size, hostLE) ==
    IF hostLE THEN le_bytes
    ELSE [k \in 1..Len(le_bytes) |->
            le_bytes[((k - 1) \div elem_size) * elem_size
                     + (elem_size - 1 - ((k - 1) % elem_size)) + 1]]

ValuesOf(memory, elem_size, hostLE) == HostMemory(memory, elem_size, hostLE)

\* What a caller's cube and buffers may hold before a call.
StaleCube ==
    [isnull |-> FALSE, data |-> <<9>>, rank |-> 3, dims |-> <<9, 9, 9>>,
     data_type |-> MAT_DATA_UINT8]

StaleList == [isnull |-> FALSE, items |-> <<>>, count |-> 7]

NoCall ==
    [op |-> "none", hostLE |-> TRUE, has_path |-> TRUE, has_var |-> TRUE,
     has_out |-> TRUE, var |-> <<>>, ret |-> FALSE, cube |-> StaleCube,
     name |-> <<>>, list |-> StaleList, visited |-> <<>>, oob |-> 0,
     fail_at |-> 0, log |-> <<>>, before |-> NoFile]

\* No file of another program is at the path.
NoPlan == [le |-> TRUE, header |-> "none", items |-> <<>>, padded |-> TRUE]

NothingSaved ==
    [has_cube |-> FALSE, var |-> <<>>, data_type |-> MAT_DATA_FLOAT64,
     dims |-> <<0, 0, 0>>, seed |-> 0, wls |-> <<>>]

\* ------------------------------------------------------------ actions

\* save_3d_cube(path, var, cube) on host hostLE, for a cube of the given
\* type and dims whose elements are the pattern of the seed.
SaveCube(var, data_type, dims, seed, hostLE) ==
    /\ call.op = "none"
    /\ ~disk.exists
    /\ LET n == dims[1] * dims[2] * dims[3] * ElementSize(data_type)
           values == Pattern(n, seed)
           cube == [isnull |-> FALSE,
                    data |-> HostMemory(values, ElementSize(data_type), hostLE),
                    rank |-> 3, dims |-> dims, data_type |-> data_type]
           r == save_3d_cube([has_path |-> TRUE, has_var |-> TRUE, has_cube |-> TRUE,
                              var |-> var, cube |-> cube], disk, hostLE)
       IN /\ disk' = r.file
          /\ call' = [NoCall EXCEPT !.op = "save_3d_cube", !.hostLE = hostLE,
                                    !.var = var, !.ret = r.ret]
          /\ saved' = IF r.ret
                      THEN [has_cube |-> TRUE, var |-> var, data_type |-> data_type,
                            dims |-> dims, seed |-> seed, wls |-> <<>>]
                      ELSE saved
    /\ UNCHANGED plan

\* save_wavelengths(path, var, w, count) on host hostLE.
SaveWavelengths(var, count, seed, hostLE) ==
    /\ call.op = "none"
    /\ Len(saved.wls) < MaxAppends
    /\ LET values == Pattern(count * 8, seed)
           r == save_wavelengths([has_path |-> TRUE, has_var |-> TRUE, has_data |-> TRUE,
                                  var |-> var, data |-> HostMemory(values, 8, hostLE),
                                  count |-> count], disk, hostLE)
       IN /\ disk' = r.file
          /\ call' = [NoCall EXCEPT !.op = "save_wavelengths", !.hostLE = hostLE,
                                    !.var = var, !.ret = r.ret]
          /\ saved' = IF r.ret
                      THEN [saved EXCEPT !.wls = Append(@, [var |-> var, count |-> count,
                                                            seed |-> seed])]
                      ELSE saved
    /\ UNCHANGED plan

LoadArgs(has_path, has_var, var) ==
    [has_path |-> has_path, has_var |-> has_var, has_cube |-> TRUE,
     has_out_name |-> TRUE, var |-> var, cube |-> StaleCube, name |-> <<>>,
     fail_at |-> 0]

\* The call record of a load that was given a and returned r.
LoadCall(op, a, hostLE, oob, r, trace) ==
    [NoCall EXCEPT !.op = op, !.hostLE = hostLE, !.has_path = a.has_path,
                   !.has_var = a.has_var, !.var = a.var, !.ret = r.ret,
                   !.cube = r.cube, !.name = r.name,
                   !.visited = IF trace THEN r.visited ELSE <<>>, !.oob = oob,
                   !.fail_at = a.fail_at, !.log = IF trace THEN r.log ELSE <<>>]

LoadCubeByName(has_path, has_var, var, hostLE, oob, trace) ==
    /\ call.op = "none"
    /\ LET a == LoadArgs(has_path, has_var, var)
       IN call' = LoadCall("load_cube_by_name", a, hostLE, oob,
                           load_cube_by_name(a, disk, oob), trace)
    /\ UNCHANGED <<disk, saved, plan>>

Load2DArrayByName(has_path, has_var, var, hostLE, oob, trace) ==
    /\ call.op = "none"
    /\ LET a == LoadArgs(has_path, has_var, var)
       IN call' = LoadCall("load_2d_array_by_name", a, hostLE, oob,
                           load_2d_array_by_name(a, disk, oob), trace)
    /\ UNCHANGED <<disk, saved, plan>>

LoadFirst3DDoubleCube(has_path, hostLE, oob, trace) ==
    /\ call.op = "none"
    /\ LET a == LoadArgs(has_path, FALSE, <<>>)
       IN call' = LoadCall("load_first_3d_double_cube", a, hostLE, oob,
                           load_first_3d_double_cube(a, disk, oob), trace)
    /\ UNCHANGED <<disk, saved, plan>>

ListArgs(has_path) ==
    [has_path |-> has_path, has_list |-> TRUE, has_count |-> TRUE, list |-> StaleList,
     fail_at |-> 0]

ListCall(op, a, oob, r, trace) ==
    [NoCall EXCEPT !.op = op, !.has_path = a.has_path, !.ret = r.ret,
                   !.list = r.list,
                   !.visited = IF trace THEN r.visited ELSE <<>>, !.oob = oob,
                   !.fail_at = a.fail_at, !.log = IF trace THEN r.log ELSE <<>>]

ListMatCubeVariables(has_path, oob, trace) ==
    /\ call.op = "none"
    /\ LET a == ListArgs(has_path)
       IN call' = ListCall("list_mat_cube_variables", a, oob,
                           list_mat_cube_variables(a, disk, oob), trace)
    /\ UNCHANGED <<disk, saved, plan>>

ListMat2DVariables(has_path, oob, trace) ==
    /\ call.op = "none"
    /\ LET a == ListArgs(has_path)
       IN call' = ListCall("list_mat_2d_variables", a, oob,
                           list_mat_2d_variables(a, disk, oob), trace)
    /\ UNCHANGED <<disk, saved, plan>>

\* The caller is done with the outputs of the last call (free_cube,
\* free_mat_cube_info) and may call again.
Release ==
    /\ call.op # "none"
    /\ call' = NoCall
    /\ UNCHANGED <<disk, saved, plan>>

\* --------------------------------------------- the library on its own files

Init ==
    /\ disk = NoFile
    /\ call = NoCall
    /\ saved = NothingSaved
    /\ plan = NoPlan

SaveCubeStep ==
    /\ call.op = "none" /\ ~disk.exists
    /\ \E t \in DataTypes, a \in DimValues, b \in DimValues, c \in DimValues, h \in BOOLEAN :
          SaveCube(NameCube, t, <<a, b, c>>, 11, h)

SaveWavelengthsStep ==
    \E n \in WlCounts, h \in BOOLEAN : SaveWavelengths(NameWl, n, 5, h)

LoadCubeStep ==
    \E v \in {NameCube, NameWl}, h \in BOOLEAN : LoadCubeByName(TRUE, TRUE, v, h, 0, FALSE)

Load2DStep ==
    \E v \in {NameCube, NameWl}, h \in BOOLEAN : Load2DArrayByName(TRUE, TRUE, v, h, 0, FALSE)

LoadFirstStep == \E h \in BOOLEAN : LoadFirst3DDoubleCube(TRUE, h, 0, FALSE)

ListCubeStep == ListMatCubeVariables(TRUE, 0, FALSE)

List2DStep == ListMat2DVariables(TRUE, 0, FALSE)

Next ==
    \/ SaveCubeStep
    \/ SaveWavelengthsStep
    \/ LoadCubeStep
    \/ Load2DStep
    \/ LoadFirstStep
    \/ ListCubeStep
    \/ List2DStep
    \/ Release

Spec == Init /\ [][Next]_vars

\* ------------------------------------------ files of other programs

\* "A", "B"
NameA == <<65>>

NameB == <<66>>

\* How many elements a file holds at its top level, and how deep compressed
\* elements are nested.
MaxItems == 2

MaxNest == 2

\* A 32-bit word as a file of the given byte order holds it.
FileWord(v, le) == IF le THEN U32(v) ELSE bswap32(U32(v))

\* A long-form element: the tag, the payload and, if padded, the zero bytes
\* up to the 8-byte boundary.
LongElement(type, payload, le, padded) ==
    FileWord(type, le) \o FileWord(Len(payload), le) \o payload
    \o (IF padded THEN Zeros(aligned8(Len(payload)) - Len(payload)) ELSE <<>>)

\* The payload of the matrix m = [name, dims, class, mi, data]: array flags
\* with class code m.class, the dims as 32-bit values, the name, and m.data
\* (the elements' little-endian byte string) under data-type code m.mi.
MatrixPayload(m, le, padded) ==
    LongElement(MI_UINT32, FileWord(m.class, le) \o FileWord(0, le), le, TRUE)
    \o LongElement(MI_INT32,
                   FlattenSeq([i \in 1..Len(m.dims) |-> FileWord(m.dims[i], le)]),
                   le, TRUE)
    \o LongElement(MI_INT8, m.name, le, TRUE)
    \o LongElement(m.mi, HostMemory(m.data, map_numeric_mi_type(m.mi).element_size, le),
                   le, padded)

\* The matrix element; unpadded, its last sub-element and the element itself
\* end with the last data byte.
MatrixElement(m, le, padded) ==
    LongElement(MI_MATRIX, MatrixPayload(m, le, padded), le, padded)

\* The four checksum bytes that end a zlib stream; a stream that is not
\* good carries a wrong one.
AdlerBytes(ck, good) ==
    <<ck.b \div 256, ck.b % 256, ck.a \div 256,
      IF good THEN ck.a % 256 ELSE (ck.a + 1) % 256>>

\* The zlib stream that holds bytes in one stored block.
Deflate(bytes, good) ==
    <<120, 1, 1, Len(bytes) % 256, Len(bytes) \div 256,
      255 - (Len(bytes) % 256), 255 - (Len(bytes) \div 256)>>
    \o bytes \o AdlerBytes(Adler32(bytes), good)

\* The layout of a stream is a sequence of items: a matrix, a compressed
\* element around a stream of items, or a compressed element that does not
\* inflate.
NoMatrix == [name |-> <<>>, dims |-> <<>>, class |-> 0, mi |-> 0, data |-> <<>>]

Leaf(m) == [kind |-> "mat", m |-> m, inner |-> <<>>]

Wrap(items) == [kind |-> "z", m |-> NoMatrix, inner |-> items]

Corrupt == [kind |-> "zbad", m |-> NoMatrix, inner |-> <<>>]

RECURSIVE Encode(_, _, _)
RECURSIVE EncodeItem(_, _, _)

\* The bytes of a stream of items; padded: the stream's last element has
\* its final padding.
Encode(items, le, padded) ==
    IF items = <<>> THEN <<>>
    ELSE EncodeItem(Head(items), le, padded \/ Len(items) > 1)
         \o Encode(Tail(items), le, padded)

EncodeItem(it, le, padded) ==
    CASE it.kind = "mat" -> MatrixElement(it.m, le, padded)
      [] it.kind = "z" ->
            LongElement(MI_COMPRESSED, Deflate(Encode(it.inner, le, TRUE), TRUE), le, padded)
      [] it.kind = "zbad" ->
            LongElement(MI_COMPRESSED, Deflate(<<>>, FALSE), le, padded)

\* The 128 bytes before the first element: text, the version and the
\* byte-order mark "IM" as the file's byte order holds them.
ForeignHeader(le, header) ==
    [i \in 1..124 |-> IF i <= 116 THEN 32 ELSE 0]
    \o (IF header = "badmark" THEN <<0, 1, 88, 88>>
        ELSE IF le THEN <<0, 1, 73, 77>> ELSE <<1, 0, 77, 73>>)

\* The file laid out as pl = [le, header, items, padded] tells.
FileOf(pl) ==
    IF pl.header = "short" THEN SubSeq(ForeignHeader(pl.le, "ok"), 1, HEADER_SIZE - 1)
    ELSE ForeignHeader(pl.le, pl.header) \o Encode(pl.items, pl.le, pl.padded)

\* The matrices the files are made of.
\* A, 2x1x1 uint8.
G3a == [name |-> NameA, dims |-> <<2, 1, 1>>, class |-> MX_UINT8_CLASS, mi |-> MI_UINT8,
        data |-> <<1, 2>>]

\* A again, 1x2x1 int16.
G3b == [name |-> NameA, dims |-> <<1, 2, 1>>, class |-> MX_INT16_CLASS, mi |-> MI_INT16,
        data |-> <<3, 4, 5, 6>>]

\* A as a 2x1 uint16 array.
G2a == [name |-> NameA, dims |-> <<2, 1>>, class |-> MX_UINT16_CLASS, mi |-> MI_UINT16,
        data |-> <<7, 8, 9, 10>>]

\* A with four dimensions, 1x1x1x2 double, and 32 bytes of data.
R4 == [name |-> NameA, dims |-> <<1, 1, 1, 2>>, class |-> MX_DOUBLE_CLASS, mi |-> MI_DOUBLE,
       data |-> [k \in 1..32 |-> k]]

\* B, 2x1x1, class double over uint8 data.
Xcls == [name |-> NameB, dims |-> <<2, 1, 1>>, class |-> MX_DOUBLE_CLASS, mi |-> MI_UINT8,
         data |-> <<11, 12>>]

\* A, 2x1x1 int16 with two bytes of data.
Xsz == [name |-> NameA, dims |-> <<2, 1, 1>>, class |-> MX_INT16_CLASS, mi |-> MI_INT16,
        data |-> <<13, 14>>]

Matrices == {G3a, G3b, G2a, R4, Xcls, Xsz}

\* G3a inside d compressed elements.
RECURSIVE Nested(_)
Nested(d) == IF d = 0 THEN Leaf(G3a) ELSE Wrap(<<Nested(d - 1)>>)

Items == {Leaf(m) : m \in Matrices} \cup {Nested(d) : d \in 1..MaxNest} \cup {Corrupt}

ItemSeqs == UNION {[1..n -> Items] : n \in 0..MaxItems}

\* The layouts: every stream of items in either byte order; in the file's
\* own byte order also without the final padding; and the files that are no
\* containers.
Plans ==
    {[le |-> le, header |-> "ok", items |-> items, padded |-> TRUE] :
        le \in BOOLEAN, items \in ItemSeqs}
    \cup {[le |-> TRUE, header |-> "ok", items |-> items, padded |-> FALSE] :
            items \in ItemSeqs \ {<<>>}}
    \cup {[le |-> TRUE, header |-> h, items |-> <<Leaf(G3a)>>, padded |-> TRUE] :
            h \in {"short", "badmark"}}

RECURSIVE HasRank4(_)
HasRank4(items) ==
    \E i \in 1..Len(items) :
        IF items[i].kind = "mat" THEN Len(items[i].m.dims) > 3 ELSE HasRank4(items[i].inner)

\* What a read of the slot after a three-slot dims array may yield: the
\* slot is not part of the array.
OobValues == {0, 2, 4}

OobFor(pl) == IF HasRank4(pl.items) THEN OobValues ELSE {0}

\* Another program puts a file at the path.
PutFile(pl) ==
    /\ call.op = "none"
    /\ ~disk.exists
    /\ disk' = [exists |-> TRUE, bytes |-> FileOf(pl)]
    /\ plan' = pl
    /\ UNCHANGED <<call, saved>>

PutFileStep == call.op = "none" /\ ~disk.exists /\ \E pl \in Plans : PutFile(pl)

\* The names asked for.
Names == {NameA, NameB}

ScanLoadCubeStep ==
    \E v \in Names, oob \in OobFor(plan) : LoadCubeByName(TRUE, TRUE, v, TRUE, oob, TRUE)

ScanLoad2DStep ==
    \E v \in Names, oob \in OobFor(plan) : Load2DArrayByName(TRUE, TRUE, v, TRUE, oob, TRUE)

ScanLoadFirstStep == \E oob \in OobFor(plan) : LoadFirst3DDoubleCube(TRUE, TRUE, oob, TRUE)

ScanListCubeStep == \E oob \in OobFor(plan) : ListMatCubeVariables(TRUE, oob, TRUE)

ScanList2DStep == \E oob \in OobFor(plan) : ListMat2DVariables(TRUE, oob, TRUE)

\* The calls without a path or without a name.  They return before the
\* path is looked at: they are made while no file is there.
NullPathStep ==
    /\ ~disk.exists
    /\ \/ LoadCubeByName(FALSE, TRUE, NameA, TRUE, 0, TRUE)
       \/ Load2DArrayByName(FALSE, TRUE, NameA, TRUE, 0, TRUE)
       \/ LoadFirst3DDoubleCube(FALSE, TRUE, 0, TRUE)
       \/ ListMatCubeVariables(FALSE, 0, TRUE)
       \/ ListMat2DVariables(FALSE, 0, TRUE)

NullNameStep ==
    /\ ~disk.exists
    /\ \/ LoadCubeByName(TRUE, FALSE, NameA, TRUE, 0, TRUE)
       \/ Load2DArrayByName(TRUE, FALSE, NameA, TRUE, 0, TRUE)

ScanNext ==
    \/ PutFileStep
    \/ ScanLoadCubeStep
    \/ ScanLoad2DStep
    \/ ScanLoadFirstStep
    \/ ScanListCubeStep
    \/ ScanList2DStep
    \/ NullPathStep
    \/ NullNameStep
    \/ Release

ScanSpec == Init /\ [][ScanNext]_vars

\* ---------------------------------------- files that try the reader
\*
\* More items: a matrix element given by its sub-elements ("raw"), bytes
\* that are no element ("junk"), a compressed element whose stream stops
\* before its last block ("zcut") and one without payload ("zempty").

\* A sub-element: its type, its payload as 32-bit values followed by bytes,
\* and the length its tag declares.
Sub(type, words, bytes) ==
    [type |-> type, words |-> words, bytes |-> bytes, len |-> 4 * Len(words) + Len(bytes)]

\* Array flags with a class code, complex or not.
FlagsSub(class, complex) == Sub(MI_UINT32, <<class + (IF complex THEN 2048 ELSE 0), 0>>, <<>>)

DimsSub(values) == Sub(MI_INT32, values, <<>>)

NameSub(name) == Sub(MI_INT8, <<>>, name)

DataSub(mi, bytes) == Sub(mi, <<>>, bytes)

\* A sub-element whose tag declares more bytes than follow.
Overlong(sub) == [sub EXCEPT !.len = @ + 64]

SubBytes(sub, le) ==
    FlattenSeq([i \in 1..Len(sub.words) |-> FileWord(sub.words[i], le)]) \o sub.bytes

SubElement(sub, le) ==
    FileWord(sub.type, le) \o FileWord(sub.len, le) \o SubBytes(sub, le)
    \o Zeros(aligned8(Len(SubBytes(sub, le))) - Len(SubBytes(sub, le)))

\* The payload of a matrix element made of the sub-elements.
RawPayload(subs, le) == FlattenSeq([i \in 1..Len(subs) |-> SubElement(subs[i], le)])

Raw(subs) == [kind |-> "raw", m |-> NoMatrix, inner |-> <<>>, subs |-> subs]

Junk(words, bytes) ==
    [kind |-> "junk", m |-> NoMatrix, inner |-> <<>>, subs |-> <<Sub(0, words, bytes)>>]

CutStream == [kind |-> "zcut", m |-> NoMatrix, inner |-> <<>>]

EmptyStream == [kind |-> "zempty", m |-> NoMatrix, inner |-> <<>>]

\* An element that is neither a matrix nor compressed, as its bytes.
Skipped(words, bytes) ==
    [kind |-> "skip", m |-> NoMatrix, inner |-> <<>>, subs |-> <<Sub(0, words, bytes)>>]

\* The bytes of a stream of items; padded: the stream's last element has
\* its final padding.
RECURSIVE EdgeEncode(_, _, _)

EdgeEncodeItem(it, le, padded) ==
    CASE it.kind \in {"mat", "zbad"} -> EncodeItem(it, le, padded)
      [] it.kind = "z" ->
            LongElement(MI_COMPRESSED, Deflate(EdgeEncode(it.inner, le, TRUE), TRUE), le,
                        padded)
      [] it.kind = "raw" ->
            LongElement(MI_MATRIX, RawPayload(it.subs, le), le, padded)
      [] it.kind \in {"junk", "skip"} -> SubBytes(it.subs[1], le)
      [] it.kind = "zcut" ->
            LongElement(MI_COMPRESSED, <<120, 1, 0, 0, 0, 255, 255>>, le, padded)
      [] it.kind = "zempty" -> LongElement(MI_COMPRESSED, <<>>, le, padded)

EdgeEncode(items, le, padded) ==
    IF items = <<>> THEN <<>>
    ELSE EdgeEncodeItem(Head(items), le, padded \/ Len(items) > 1)
         \o EdgeEncode(Tail(items), le, padded)

\* The matrices that are not to be delivered, by their sub-elements.  A is a
\* 2x1x1 uint8 matrix but for what is said.
\* Complex.
BadComplex ==
    <<FlagsSub(MX_UINT8_CLASS, TRUE), DimsSub(<<2, 1, 1>>), NameSub(NameA),
      DataSub(MI_UINT8, <<1, 2>>)>>

\* Of class 12 (int32).
BadClass ==
    <<FlagsSub(12, FALSE), DimsSub(<<2, 1, 1>>), NameSub(NameA), DataSub(MI_UINT8, <<1, 2>>)>>

\* With a dimension of 0.
BadZeroDim ==
    <<FlagsSub(MX_UINT8_CLASS, FALSE), DimsSub(<<2, 0, 1>>), NameSub(NameA),
      DataSub(MI_UINT8, <<1, 2>>)>>

\* 2 x -1.
BadNegativeDim ==
    <<FlagsSub(MX_UINT8_CLASS, FALSE), Sub(MI_INT32, <<2>>, <<255, 255, 255, 255>>),
      NameSub(NameA), DataSub(MI_UINT8, <<1, 2>>)>>

\* Of rank 17.
BadRank ==
    <<FlagsSub(MX_UINT8_CLASS, FALSE), DimsSub([i \in 1..17 |-> IF i = 1 THEN 2 ELSE 1]),
      NameSub(NameA), DataSub(MI_UINT8, <<1, 2>>)>>

BadNoFlags == <<DimsSub(<<2, 1, 1>>), NameSub(NameA), DataSub(MI_UINT8, <<1, 2>>)>>

BadNoDims == <<FlagsSub(MX_UINT8_CLASS, FALSE), NameSub(NameA), DataSub(MI_UINT8, <<1, 2>>)>>

BadNoData == <<FlagsSub(MX_UINT8_CLASS, FALSE), DimsSub(<<2, 1, 1>>), NameSub(NameA)>>

\* With a data sub-element that declares more bytes than the matrix holds.
BadSub ==
    <<FlagsSub(MX_UINT8_CLASS, FALSE), DimsSub(<<2, 1, 1>>), NameSub(NameA),
      Overlong(DataSub(MI_UINT8, <<1, 2>>))>>

\* int16 with two bytes of data.
BadSize ==
    <<FlagsSub(MX_INT16_CLASS, FALSE), DimsSub(<<2, 1, 1>>), NameSub(NameA),
      DataSub(MI_INT16, <<1, 2>>)>>

\* 65536 x 32768 x 1 uint8: the number of elements does not fit the size
\* word; cut to the word it is 0, the length of the data.
BadCount ==
    <<FlagsSub(MX_UINT8_CLASS, FALSE), DimsSub(<<65536, 32768, 1>>), NameSub(NameA),
      DataSub(MI_UINT8, <<>>)>>

\* 32768 x 8192 x 1 double: the number of bytes does not fit the size word.
BadBytes ==
    <<FlagsSub(MX_DOUBLE_CLASS, FALSE), DimsSub(<<32768, 8192, 1>>), NameSub(NameA),
      DataSub(MI_DOUBLE, <<>>)>>

BadKinds ==
    {BadComplex, BadClass, BadZeroDim, BadNegativeDim, BadRank, BadNoFlags, BadNoDims,
     BadNoData, BadSub, BadSize, BadCount, BadBytes}

\* The sub-elements in every order.
Orders(subs) ==
    {[i \in 1..Len(subs) |-> subs[p[i]]] : p \in Permutations(1..Len(subs))}

\* A, 1x2x1 uint16, its data before its dimensions.
DataFirst ==
    <<FlagsSub(MX_UINT16_CLASS, FALSE), DataSub(MI_UINT16, <<21, 22, 23, 24>>),
      DimsSub(<<1, 2, 1>>), NameSub(NameA)>>

\* Bytes that are no element: a short-form tag of length 5, a long-form tag
\* of a length that is not there, and five bytes.
JunkShort == Junk(<<327681, 0>>, <<>>)

JunkLong == Junk(<<MI_MATRIX, 4096>>, <<>>)

JunkTail == Junk(<<>>, <<1, 2, 3, 4, 5>>)

\* Elements the walk steps over: two bytes of miINT8 in the short form, and
\* a double in the long form.
SkippedShort == Skipped(<<131073>>, <<7, 7, 0, 0>>)

SkippedLong == Skipped(<<MI_DOUBLE, 8, 0, 0>>, <<>>)

SkippedItems == {SkippedShort, SkippedLong}

GoodItems == {Leaf(G3a), Leaf(G3b), Leaf(G2a)}

BrokenItems == {JunkShort, JunkLong, Corrupt, CutStream, EmptyStream}

\* The layouts: two items at the top level, good, broken or not to be
\* delivered; a tail of five bytes; two items inside a compressed element
\* and one after it; an item inside two; and the matrices not to be
\* delivered, their sub-elements in every order, before a good one.
EdgeLayouts ==
    {<<x>> : x \in GoodItems \cup BrokenItems \cup {Raw(b) : b \in BadKinds}}
    \cup {<<x, y>> : x, y \in GoodItems \cup BrokenItems}
    \cup {<<x, JunkTail>> : x \in GoodItems}
    \cup {<<Wrap(<<x, y>>), z>> : x, y \in GoodItems \cup BrokenItems, z \in {Leaf(G3b)}}
    \cup {<<Wrap(<<Wrap(<<x>>), Leaf(G2a)>>), Leaf(G3b)>> :
            x \in GoodItems \cup BrokenItems \cup {JunkTail}}
    \cup {<<Raw(q), Leaf(G3a)>> : q \in UNION {Orders(b) : b \in BadKinds}}
    \cup {<<Raw(DataFirst)>>}
    \cup {<<s, x>> : s \in SkippedItems, x \in GoodItems}
    \cup {<<Wrap(<<s, x>>), Leaf(G3b)>> : s \in SkippedItems, x \in GoodItems}

\* The layouts that are also tried without the final padding.
UnpaddedLayouts == {<<x, Leaf(G3a)>> : x \in GoodItems \cup SkippedItems}

\* The last two are files without a byte-order mark and
\* files shorter than the header.
EdgePlans ==
    {[le |-> le, header |-> "edge", items |-> items, padded |-> TRUE] :
        le \in BOOLEAN, items \in EdgeLayouts}
    \cup {[le |-> TRUE, header |-> h, items |-> <<Leaf(G3a)>>, padded |-> TRUE] :
            h \in {"short", "badmark"}}
    \cup {[le |-> le, header |-> "edge", items |-> items, padded |-> FALSE] :
            le \in BOOLEAN, items \in UnpaddedLayouts}

PutEdgeFile(pl) ==
    /\ call.op = "none"
    /\ ~disk.exists
    /\ disk' = [exists |-> TRUE,
                bytes |-> IF pl.header = "edge"
                          THEN ForeignHeader(pl.le, "ok")
                               \o EdgeEncode(pl.items, pl.le, pl.padded)
                          ELSE FileOf(pl)]
    /\ plan' = pl
    /\ UNCHANGED <<call, saved>>

PutEdgeFileStep == call.op = "none" /\ ~disk.exists /\ \E pl \in EdgePlans : PutEdgeFile(pl)

\* The read calls, with the visitor's allocation that the heap refuses.
FailAts == {0, 1}

EdgeLoad(op, var, fail_at) ==
    /\ call.op = "none"
    /\ disk.exists
    /\ LET a == [LoadArgs(TRUE, TRUE, var) EXCEPT !.fail_at = fail_at]
       IN call' = LoadCall(op, a, TRUE, 0,
                           CASE op = "load_cube_by_name" -> load_cube_by_name(a, disk, 0)
                             [] op = "load_2d_array_by_name" -> load_2d_array_by_name(a, disk, 0)
                             [] op = "load_first_3d_double_cube" ->
                                   load_first_3d_double_cube(a, disk, 0),
                           TRUE)
    /\ UNCHANGED <<disk, saved, plan>>

EdgeList(op, fail_at) ==
    /\ call.op = "none"
    /\ disk.exists
    /\ LET a == [ListArgs(TRUE) EXCEPT !.fail_at = fail_at]
       IN call' = ListCall(op, a, 0,
                           IF op = "list_mat_cube_variables"
                           THEN list_mat_cube_variables(a, disk, 0)
                           ELSE list_mat_2d_variables(a, disk, 0),
                           TRUE)
    /\ UNCHANGED <<disk, saved, plan>>

EdgeLoadCubeStep == \E n \in FailAts : EdgeLoad("load_cube_by_name", NameA, n)

EdgeLoad2DStep == \E n \in FailAts : EdgeLoad("load_2d_array_by_name", NameA, n)

EdgeLoadFirstStep == \E n \in FailAts : EdgeLoad("load_first_3d_double_cube", <<>>, n)

EdgeListCubeStep == \E n \in FailAts : EdgeList("list_mat_cube_variables", n)

EdgeList2DStep == \E n \in FailAts : EdgeList("list_mat_2d_variables", n)

\* The saves: names of 0 to 9 bytes, every element type and one that is
\* none, dims that hold a 0, and dims whose product, or whose product times
\* the element size, does not fit the size word.
Name8 == <<97, 98, 99, 100, 101, 102, 103, 104>>

Name9 == <<97, 98, 99, 100, 101, 102, 103, 104, 105>>

EdgeNames == {<<>>, NameA, NameCube, Name8, Name9}

SmallDims == {<<1, 1, 1>>, <<2, 1, 3>>, <<3, 2, 1>>}

ZeroDims == {<<0, 1, 1>>, <<2, 0, 3>>}

CountOverflowDims == <<65536, 32768, 1>>

BytesOverflowDims == <<32768, 8192, 1>>

\* A data type code that is none of MatDataType.
NoDataType == MAT_DATA_INT16 + 1

EdgeCubes ==
    {[var |-> v, data_type |-> MAT_DATA_UINT8, dims |-> <<2, 1, 3>>] : v \in EdgeNames}
    \cup {[var |-> NameA, data_type |-> t, dims |-> d] :
            t \in DataTypes \cup {NoDataType}, d \in SmallDims}
    \cup {[var |-> NameA, data_type |-> t, dims |-> d] :
            t \in {MAT_DATA_UINT8, MAT_DATA_FLOAT64}, d \in ZeroDims \cup {CountOverflowDims}}
    \cup {[var |-> NameA, data_type |-> MAT_DATA_FLOAT64, dims |-> BytesOverflowDims]}

\* The cube has data for all its elements: it is one the model holds.
Holdable(c) == c.dims \in SmallDims /\ c.data_type \in DataTypes

\* The caller's cube: the pattern where the model holds the cube, and one
\* byte where the cube is too large for it or has no elements.
EdgeCubeOf(c, hostLE) ==
    [isnull |-> FALSE,
     data |-> IF Holdable(c)
              THEN HostMemory(Pattern(c.dims[1] * c.dims[2] * c.dims[3]
                                          * ElementSize(c.data_type), 11),
                              ElementSize(c.data_type), hostLE)
              ELSE <<0>>,
     rank |-> 3, dims |-> c.dims, data_type |-> c.data_type]

\* save_3d_cube; call.cube is the cube it was given.
EdgeSaveCube(c, hostLE) ==
    /\ call.op = "none"
    /\ ~disk.exists
    /\ LET r == save_3d_cube([has_path |-> TRUE, has_var |-> TRUE, has_cube |-> TRUE,
                              var |-> c.var, cube |-> EdgeCubeOf(c, hostLE)], disk, hostLE)
       IN /\ disk' = r.file
          /\ call' = [NoCall EXCEPT !.op = "save_3d_cube", !.hostLE = hostLE,
                                    !.var = c.var, !.ret = r.ret,
                                    !.cube = EdgeCubeOf(c, hostLE), !.before = disk]
          /\ saved' = IF r.ret
                      THEN [has_cube |-> TRUE, var |-> c.var, data_type |-> c.data_type,
                            dims |-> c.dims, seed |-> 11, wls |-> <<>>]
                      ELSE saved
    /\ UNCHANGED plan

EdgeSaveCubeStep ==
    /\ call.op = "none" /\ ~disk.exists
    /\ \E c \in EdgeCubes, h \in BOOLEAN : EdgeSaveCube(c, h)

\* 268435456 doubles take more bytes than the size word holds.
EdgeCounts == {0, 1, 5, 268435456}

\* The counts whose vector save_wavelengths refuses.
RefusedCounts == {0, 268435456}

\* save_wavelengths on a file of the library, and with a vector it refuses
\* on a file of another program, whose layout stays what it was; call.cube
\* is the vector it was given, as a cube.
EdgeSaveWavelengths(var, count, hostLE) ==
    /\ call.op = "none"
    /\ disk.exists
    /\ plan = NoPlan \/ (count \in RefusedCounts /\ var = NameWl /\ hostLE)
    /\ saved.wls = <<>>
    /\ LET w == IF count <= 5 THEN HostMemory(Pattern(count * 8, 5), 8, hostLE) ELSE <<0>>
           r == save_wavelengths([has_path |-> TRUE, has_var |-> TRUE, has_data |-> TRUE,
                                  var |-> var, data |-> w, count |-> count], disk, hostLE)
       IN /\ disk' = r.file
          /\ call' = [NoCall EXCEPT !.op = "save_wavelengths", !.hostLE = hostLE,
                                    !.var = var, !.ret = r.ret,
                                    !.cube = [isnull |-> FALSE, data |-> w, rank |-> 2,
                                              dims |-> <<count, 1, 1>>,
                                              data_type |-> MAT_DATA_FLOAT64],
                                    !.before = disk]
          /\ saved' = IF r.ret
                      THEN [saved EXCEPT !.wls = Append(@, [var |-> var, count |-> count,
                                                            seed |-> 5])]
                      ELSE saved
    /\ UNCHANGED plan

EdgeSaveWavelengthsStep ==
    \E v \in {NameWl, Name9}, n \in EdgeCounts, h \in BOOLEAN : EdgeSaveWavelengths(v, n, h)

EdgeNext ==
    \/ PutEdgeFileStep
    \/ EdgeSaveCubeStep
    \/ EdgeSaveWavelengthsStep
    \/ EdgeLoadCubeStep
    \/ EdgeLoad2DStep
    \/ EdgeLoadFirstStep
    \/ EdgeListCubeStep
    \/ EdgeList2DStep
    \/ Release

EdgeSpec == Init /\ [][EdgeNext]_vars

\* ------------------------------------------ vectors appended in turn
\*
\* A file of the library or of another program, and wavelength vectors
\* appended to it one after another, some under the same name.

\* How many vectors are appended to one file.
MaxRepeats == 2

\* The names the vectors are appended under: "wl" and the empty name.
AppendNames == {NameWl, <<>>}

\* The vectors: their count and the seed of their values.
AppendVectors == {[count |-> 1, seed |-> 5], [count |-> 2, seed |-> 6]}

\* The cubes whose file is appended to, named "cube" and "".
AppendCubes ==
    {[var |-> v, data_type |-> MAT_DATA_UINT8, dims |-> <<2, 1, 3>>] : v \in {NameCube, <<>>}}

\* wl as a 2x1 double array.
G2w == [name |-> NameWl, dims |-> <<2, 1>>, class |-> MX_DOUBLE_CLASS, mi |-> MI_DOUBLE,
        data |-> [k \in 1..16 |-> 40 + k]]

\* The files of other programs that are appended to: files that end with
\* the padding of their last element, in either byte order; files whose
\* last element lacks it; and files that end in five bytes that are no
\* element.
AppendPlans ==
    {[le |-> le, header |-> "edge", items |-> items, padded |-> TRUE] :
        le \in BOOLEAN,
        items \in {<<>>, <<Leaf(G3a)>>, <<Leaf(G2a)>>, <<Leaf(G3a), Leaf(G3b)>>,
                   <<Leaf(G2w)>>, <<Corrupt>>}}
    \cup {[le |-> TRUE, header |-> "edge", items |-> items, padded |-> FALSE] :
            items \in {<<Leaf(G3a)>>, <<Leaf(G2a)>>}}
    \cup {[le |-> TRUE, header |-> "edge", items |-> <<Leaf(G3a), JunkTail>>,
           padded |-> TRUE]}

\* save_wavelengths(path, var, w, count) with the vector v on host hostLE,
\* whether a file is at the path or not; call.cube is the vector it was
\* given, as a cube, and call.before the file before the call.
AppendVector(var, v, hostLE) ==
    /\ call.op = "none"
    /\ Len(saved.wls) < MaxRepeats
    /\ LET w == HostMemory(Pattern(v.count * 8, v.seed), 8, hostLE)
           r == save_wavelengths([has_path |-> TRUE, has_var |-> TRUE, has_data |-> TRUE,
                                  var |-> var, data |-> w, count |-> v.count],
                                 disk, hostLE)
       IN /\ disk' = r.file
          /\ call' = [NoCall EXCEPT !.op = "save_wavelengths", !.hostLE = hostLE,
                                    !.var = var, !.ret = r.ret,
                                    !.cube = [isnull |-> FALSE, data |-> w, rank |-> 2,
                                              dims |-> <<v.count, 1, 1>>,
                                              data_type |-> MAT_DATA_FLOAT64],
                                    !.before = disk]
          /\ saved' = IF r.ret
                      THEN [saved EXCEPT !.wls = Append(@, [var |-> var, count |-> v.count,
                                                            seed |-> v.seed])]
                      ELSE saved
    /\ UNCHANGED plan

AppendPutFileStep == call.op = "none" /\ ~disk.exists /\ \E pl \in AppendPlans : PutEdgeFile(pl)

AppendSaveCubeStep == \E c \in AppendCubes, h \in BOOLEAN : EdgeSaveCube(c, h)

AppendVectorStep ==
    \E n \in AppendNames, v \in AppendVectors, h \in BOOLEAN : AppendVector(n, v, h)

AppendLoad2DStep ==
    \E n \in AppendNames \cup {UnnamedName} : EdgeLoad("load_2d_array_by_name", n, 0)

AppendLoadCubeStep ==
    \E n \in {NameA, NameCube, UnnamedName} : EdgeLoad("load_cube_by_name", n, 0)

AppendList2DStep == EdgeList("list_mat_2d_variables", 0)

AppendListCubeStep == EdgeList("list_mat_cube_variables", 0)

AppendNext ==
    \/ AppendPutFileStep
    \/ AppendSaveCubeStep
    \/ AppendVectorStep
    \/ AppendLoad2DStep
    \/ AppendLoadCubeStep
    \/ AppendList2DStep
    \/ AppendListCubeStep
    \/ Release

AppendSpec == Init /\ [][AppendNext]_vars

\* ===================================================================
\* What the layout of a file says, without reading it.
\* ===================================================================

\* The matrices of a stream of items in the order a depth-first walk meets
\* them, each with the depth of the stream it lies in, up to the first
\* compressed element that does not inflate: [aborted, leaves].
RECURSIVE RefWalk(_, _)

RefItem(it, depth) ==
    CASE it.kind = "mat" -> [aborted |-> FALSE, leaves |-> <<[m |-> it.m, depth |-> depth]>>]
      [] it.kind = "z" -> RefWalk(it.inner, depth + 1)
      [] it.kind = "zbad" -> [aborted |-> TRUE, leaves |-> <<>>]

RefThen(first, rest) ==
    IF first.aborted THEN first
    ELSE [aborted |-> rest.aborted, leaves |-> first.leaves \o rest.leaves]

RefWalk(items, depth) ==
    IF items = <<>> THEN [aborted |-> FALSE, leaves |-> <<>>]
    ELSE RefThen(RefItem(Head(items), depth), RefWalk(Tail(items), depth))

\* The walk of the file at the path.
PlanWalk == RefWalk(plan.items, 0)

\* What the parser makes of the matrix m when it is stored on its own,
\* padded, at the top level of a file.
\* The matrix the parser makes of a payload.
ParsedPayload(payload, le, oob) ==
    parse_matrix_payload(payload, Len(payload), le, oob).matrix

\* The same for each matrix, byte order and value of the slot after dims.
ParsedTable ==
    [m \in Matrices, le \in BOOLEAN, oob \in OobValues |->
        ParsedPayload(MatrixPayload(m, le, TRUE), le, oob)]

ParsedAlone(m, le, oob) == ParsedTable[m, le, oob]

\* The parser marks the leaf supported.
Supported(leaf) == ParsedAlone(leaf.m, plan.le, call.oob).supported

\* The supported matrices of the file, in the order of the walk.
SupportedLeaves == SelectSeq(PlanWalk.leaves, Supported)

\* The leaves of the file that the last call handed to its visitor.
DeliveredLeaves ==
    {PlanWalk.leaves[i] : i \in
        {j \in 1..Len(PlanWalk.leaves) :
            \E k \in 1..Len(call.visited) :
                call.visited[k].matrix = ParsedAlone(PlanWalk.leaves[j].m, plan.le, call.oob)}}

RECURSIVE Product(_)
Product(dims) == IF dims = <<>> THEN 1 ELSE Head(dims) * Product(Tail(dims))

IsLoadByName == call.op \in {"load_cube_by_name", "load_2d_array_by_name"}

IsLoad == IsLoadByName \/ call.op = "load_first_3d_double_cube"

IsList == call.op \in {"list_mat_cube_variables", "list_mat_2d_variables"}

\* The rank the last call asked for.
RequestedRank == IF call.op \in {"load_2d_array_by_name", "list_mat_2d_variables"} THEN 2 ELSE 3

\* The call was given its path and name, and the path holds a container.
ReadsContainer == call.has_path /\ call.has_var /\ plan.header = "ok"

\* The cube and the descriptor that hold the matrix m for a caller that
\* asked for the given rank, on a little-endian host.
CubeOf(m, rank) ==
    [isnull |-> FALSE, data |-> m.data, rank |-> rank,
     dims |-> <<m.dims[1], m.dims[2], IF rank = 3 THEN m.dims[3] ELSE 1>>,
     data_type |-> map_numeric_mi_type(m.mi).data_type]

DescriptorOf(m, rank) ==
    [name |-> m.name,
     dims |-> <<m.dims[1], m.dims[2], IF rank = 3 THEN m.dims[3] ELSE 1>>,
     data_type |-> map_numeric_mi_type(m.mi).data_type]

\* The elements the saved cube holds, as bytes, and its descriptor.
SavedBytes ==
    Pattern(saved.dims[1] * saved.dims[2] * saved.dims[3] * ElementSize(saved.data_type),
            saved.seed)

SavedCube ==
    [isnull |-> FALSE, data |-> SavedBytes, rank |-> 3, dims |-> saved.dims,
     data_type |-> saved.data_type]

SavedDescriptor == [name |-> saved.var, dims |-> saved.dims, data_type |-> saved.data_type]

LoadsSavedCube == call.op = "load_cube_by_name" /\ saved.has_cube /\ call.var = saved.var

\* ===================================================================
\* The claims.
\* ===================================================================

\* C1: round trip.  On the little-endian host the library runs on, for each
\* of the six element types and every dims (A,B,C) with A,B,C in {1,3,7},
\* once save_3d_cube(path, name, cube) has succeeded, load_cube_by_name(path,
\* name) succeeds and returns a cube whose data bytes are the saved data,
\* whose dims are (A,B,C), whose rank is 3 and whose type is the saved type,
\* and reports the name.
C1_RoundTrip ==
    (LoadsSavedCube /\ call.hostLE) =>
        /\ call.ret
        /\ call.cube = SavedCube
        /\ call.name = saved.var

\* A 7x7x7 cube of doubles has been saved and loaded back.
C1_Witness ==
    /\ LoadsSavedCube /\ call.hostLE /\ call.ret
    /\ saved.dims = <<7, 7, 7>> /\ saved.data_type = MAT_DATA_FLOAT64
    /\ Len(call.cube.data) = 2744

\* C2: save then append.  For a file produced by save_3d_cube and every N in
\* {1,5,128}, once save_wavelengths(path, wlName, w, N) has succeeded,
\* list_mat_cube_variables returns exactly the descriptor of the cube,
\* list_mat_2d_variables returns one descriptor for wlName with dims
\* (N,1,1), load_2d_array_by_name(path, wlName) returns N float64 values
\* identical to w, and load_cube_by_name still returns the cube's data.
C2_SaveThenAppend ==
    (saved.has_cube /\ Len(saved.wls) = 1) =>
        /\ call.op = "list_mat_cube_variables" =>
              /\ call.ret
              /\ call.list = [isnull |-> FALSE, items |-> <<SavedDescriptor>>, count |-> 1]
        /\ call.op = "list_mat_2d_variables" =>
              /\ call.ret
              /\ call.list = [isnull |-> FALSE,
                              items |-> <<[name |-> saved.wls[1].var,
                                           dims |-> <<saved.wls[1].count, 1, 1>>,
                                           data_type |-> MAT_DATA_FLOAT64]>>,
                              count |-> 1]
        /\ (call.op = "load_2d_array_by_name" /\ call.var = saved.wls[1].var /\ call.hostLE) =>
              /\ call.ret
              /\ call.cube = [isnull |-> FALSE,
                              data |-> Pattern(saved.wls[1].count * 8, saved.wls[1].seed),
                              rank |-> 2, dims |-> <<saved.wls[1].count, 1, 1>>,
                              data_type |-> MAT_DATA_FLOAT64]
        /\ (LoadsSavedCube /\ call.hostLE) => call.ret /\ call.cube = SavedCube

\* 128 wavelengths have been appended to a cube file and loaded back.
C2_Witness ==
    /\ saved.has_cube /\ Len(saved.wls) = 1 /\ saved.wls[1].count = 128
    /\ call.op = "load_2d_array_by_name" /\ call.var = saved.wls[1].var
    /\ call.hostLE /\ call.ret /\ Len(call.cube.data) = 1024

\* C7: cross-endian round trip.  For each writer host and each reader host,
\* little- or big-endian, and every multi-byte element type, a cube saved on
\* the writer host and loaded by name on the reader host holds, in the
\* reader host's representation, the saved element values.
C7_CrossEndian ==
    (LoadsSavedCube /\ ElementSize(saved.data_type) > 1) =>
        /\ call.ret
        /\ ValuesOf(call.cube.data, ElementSize(saved.data_type), call.hostLE) = SavedBytes

\* C3: outputs are cleared on failure.  Every load call with a cube output
\* that returns false leaves the cube cleared (data NULL, rank 0, dims
\* (0,0,0)), and every list call with outputs that returns false leaves the
\* list NULL and the count 0, whatever made the call fail: an invalid
\* argument, an unreadable file, a bad header, no match, an aborted scan.
C3_ClearedOnFailure ==
    /\ (IsLoad /\ ~call.ret) => call.cube = ClearedCube
    /\ (IsList /\ ~call.ret) => call.list = NullList

\* The matrices that a load by name may return: supported, of the rank the
\* call asks for, with the name it asks for.
Matches(leaf) ==
    Supported(leaf) /\ Len(leaf.m.dims) = RequestedRank /\ leaf.m.name = call.var

\* The last load returned the first of the given matches, or failed for want
\* of one.
ReturnsFirstOf(matches) ==
    IF matches # <<>>
    THEN /\ call.ret
         /\ call.cube = CubeOf(Head(matches).m, RequestedRank)
         /\ call.name = call.var
    ELSE ~call.ret /\ call.cube = ClearedCube

\* C4: first match wins.  load_cube_by_name and load_2d_array_by_name return
\* the first matrix, in depth-first file order with compressed streams
\* walked in place, that the scan reaches and that is supported, of the
\* requested rank and named exactly as requested; a matrix of that name but
\* of another rank or unsupported is passed over, no later matrix of the name
\* changes the cube, and without such a matrix the call returns false.
C4_FirstMatchWins ==
    (IsLoadByName /\ ReadsContainer) => ReturnsFirstOf(SelectSeq(PlanWalk.leaves, Matches))

\* A file holds two cubes named A; the load by name has returned the first.
C4_Witness ==
    /\ plan.header = "ok" /\ plan.items = <<Leaf(G3a), Leaf(G3b)>>
    /\ call.op = "load_cube_by_name" /\ call.has_path /\ call.has_var
    /\ call.var = NameA /\ call.ret /\ call.cube.data = G3a.data

\* The matrices a list call has to return.
Listed(leaf) == Supported(leaf) /\ Len(leaf.m.dims) = RequestedRank

\* The descriptors of the given leaves, in their order.
DescriptorsOf(leaves, rank) == [k \in 1..Len(leaves) |-> DescriptorOf(leaves[k].m, rank)]

\* C5: listing by rank.  A list call that succeeds returns one descriptor for
\* each supported matrix of its rank met by the scan, in the order they were
\* met, and none for a matrix of another rank: a matrix of rank 4 is in
\* neither list, and every rank-2 descriptor has dims[2] = 1.
C5_ListingByRank ==
    (IsList /\ call.has_path /\ plan.header = "ok" /\ call.ret) =>
        /\ call.list.items = DescriptorsOf(SelectSeq(PlanWalk.leaves, Listed), RequestedRank)
        /\ call.list.count = Len(call.list.items)
        /\ call.list.isnull = (call.list.count = 0)
        /\ RequestedRank = 2 =>
              \A k \in 1..Len(call.list.items) : call.list.items[k].dims[3] = 1

\* A supported matrix of rank 4 and a cube were handed to the list visitor
\* of rank 3; the list holds the cube only.
C5_Witness ==
    /\ plan.header = "ok" /\ plan.items = <<Leaf(R4), Leaf(G3a)>>
    /\ call.op = "list_mat_cube_variables" /\ call.has_path /\ call.ret
    /\ Len(call.visited) = 2 /\ call.visited[1].matrix.rank = 4
    /\ call.list.count = 1 /\ call.list.items[1] = DescriptorOf(G3a, 3)

\* The visitor calls that hand over the given leaves, each once, as the
\* parser reads it at the top level.
VisitsOf(leaves) ==
    [k \in 1..Len(leaves) |->
        [matrix |-> ParsedAlone(leaves[k].m, plan.le, call.oob), depth |-> leaves[k].depth]]

\* C6: compressed elements.  A supported matrix inside a compressed element,
\* or inside compressed elements nested to any depth, is handed to the
\* visitor exactly once, with the name, dims, rank, type and data it has when
\* it is stored uncompressed at the top level.
C6_CompressedDeliveredOnce ==
    (IsList /\ call.has_path /\ plan.header = "ok" /\ ~PlanWalk.aborted) =>
        /\ call.ret
        /\ call.visited = VisitsOf(SupportedLeaves)

\* A cube inside two compressed elements was handed to the visitor, once.
C6_Witness ==
    /\ plan.header = "ok" /\ plan.items = <<Nested(2)>>
    /\ IsList /\ call.has_path /\ call.ret
    /\ Len(call.visited) = 1 /\ call.visited[1].depth = 2
    /\ call.visited[1].matrix.name = NameA

\* The class code of the numeric type a data-type code names.
ClassOfType(mi) ==
    CASE mi = MI_DOUBLE -> MX_DOUBLE_CLASS
      [] mi = MI_SINGLE -> MX_SINGLE_CLASS
      [] mi = MI_UINT8 -> MX_UINT8_CLASS
      [] mi = MI_UINT16 -> MX_UINT16_CLASS
      [] mi = MI_INT8 -> MX_INT8_CLASS
      [] mi = MI_INT16 -> MX_INT16_CLASS
      [] OTHER -> 0

\* C8: class and data type agree.  A matrix is marked supported and handed to
\* a visitor only if the class code of its array flags and the data-type
\* code of its real data name the same numeric type; a matrix of class
\* double over uint8 data is unsupported.
C8_ClassMatchesDataType ==
    \A leaf \in DeliveredLeaves : leaf.m.class = ClassOfType(leaf.m.mi)

\* C9: size invariant.  Every matrix handed to a visitor has product(dims) x
\* element_size = real_data_bytes, the product being over all its dimension
\* values; a matrix whose data has another length is not handed over; and
\* the cube a load returns holds exactly product(dims) x element_size bytes.
C9_SizeInvariant ==
    /\ \A leaf \in DeliveredLeaves :
          Product(leaf.m.dims) * map_numeric_mi_type(leaf.m.mi).element_size
              = Len(leaf.m.data)
    /\ (IsLoad /\ call.ret) =>
          Len(call.cube.data) = Product(call.cube.dims) * ElementSize(call.cube.data_type)

\* The element that the given bytes are the end of, in the file at the
\* path, as read_element returns it.
ElementAtEnd(bytes) ==
    read_element(disk.bytes, Len(disk.bytes), Len(disk.bytes) - Len(bytes), plan.le)

\* The bytes of the last element of the file at the path.
LastItemBytes == EncodeItem(plan.items[Len(plan.items)], plan.le, plan.padded)

\* The element e has its whole payload, of the given length, and leaves the
\* cursor at the payload's end, the end of a stream of the given size.
WholeAtEnd(e, num_bytes, size) ==
    /\ e.ok /\ e.num_bytes = num_bytes
    /\ e.next_pos = e.payload_pos + e.num_bytes
    /\ e.next_pos = size

\* The last matrix of the walk, supported, was handed to the list visitor,
\* and a load by name that it matches has succeeded.
LastLeafDelivered(leaf) ==
    Supported(leaf) =>
        /\ IsList =>
              /\ call.ret
              /\ call.visited # <<>>
              /\ call.visited[Len(call.visited)].matrix = ParsedAlone(leaf.m, plan.le, call.oob)
        /\ (IsLoadByName /\ Matches(leaf)) => call.ret

\* The same of the last matrix of a walk that runs to the end.
LastLeafOf(walk) == ~walk.aborted => LastLeafDelivered(walk.leaves[Len(walk.leaves)])

\* C10: missing final padding.  When the last long-form element of a stream
\* has its payload inside the stream and its padding would end past the
\* stream's end, read_element succeeds, returns the whole payload and leaves
\* the cursor at the payload's end; a supported matrix stored so at the end
\* of a file is handed to the visitor, and the list or load succeeds.  (No
\* read changes the file: its last element is read in the state in which
\* the file has just arrived.)
C10_MissingFinalPadding ==
    (plan.header = "ok" /\ ~plan.padded) =>
        /\ call.op = "none" =>
              WholeAtEnd(ElementAtEnd(LastItemBytes), Len(LastItemBytes) - 8, Len(disk.bytes))
        /\ (/\ (IsList \/ IsLoadByName) /\ call.has_path /\ call.has_var
            /\ plan.items[Len(plan.items)].kind = "mat") => LastLeafOf(PlanWalk)

\* A file ends with the last data byte of a cube whose data takes two
\* bytes; the list call has returned the cube.
C10_Witness ==
    /\ plan.header = "ok" /\ ~plan.padded /\ plan.items = <<Leaf(G2a), Leaf(G3a)>>
    /\ Len(disk.bytes) % 8 # 0
    /\ call.op = "list_mat_cube_variables" /\ call.has_path /\ call.ret
    /\ call.list.count = 1 /\ call.list.items[1] = DescriptorOf(G3a, 3)

\* ===================================================================
\* Claims on the files that try the reader and on the saves.
\* ===================================================================

\* The product of the dims, or that product times the element size (times 1
\* where no size is known), is more than the size word holds.
TooLarge(dims, size) ==
    /\ dims[1] # 0 /\ dims[2] # 0 /\ dims[3] # 0
    /\ \/ dims[1] > SIZE_MAX \div dims[2]
       \/ dims[1] * dims[2] > SIZE_MAX \div dims[3]
       \/ dims[1] * dims[2] * dims[3] > SIZE_MAX \div (IF size = 0 THEN 1 ELSE size)

\* What the parser makes of a matrix given by its sub-elements.
RawParsed(subs, le) == ParsedPayload(RawPayload(subs, le), le, 0)

\* The parser returns the matrix of the sub-elements, marked supported.
Deliverable(subs, le) ==
    /\ parse_matrix_payload(RawPayload(subs, le), Len(RawPayload(subs, le)), le, 0).ok
    /\ RawParsed(subs, le).supported

\* The parser marks no matrix of the file supported whose size is too large.
OverflowUnsupported(items, le) ==
    \A i \in 1..Len(items) :
        (items[i].kind = "raw" /\ TooLarge(RawParsed(items[i].subs, le).dims,
                                           RawParsed(items[i].subs, le).element_size))
            => ~RawParsed(items[i].subs, le).supported

IsSave == call.op \in {"save_3d_cube", "save_wavelengths"}

\* The bytes the save has added to the file: all of it for save_3d_cube,
\* which starts the file, what follows the old file for save_wavelengths.
BytesAdded ==
    IF call.op = "save_3d_cube" THEN disk.bytes
    ELSE SubSeq(disk.bytes, Len(call.before.bytes) + 1, Len(disk.bytes))

\* C11: overflow rejection.  A matrix whose product of dims, or that product
\* times the element size, does not fit the size word is marked unsupported
\* by the parser and never reaches a visitor (where the data buffer would be
\* allocated); a save of such a cube or vector returns false and writes no
\* byte of a matrix element.
C11_OverflowRejected ==
    /\ plan.header = "edge" => OverflowUnsupported(plan.items, plan.le)
    /\ \A k \in 1..Len(call.visited) :
          ~TooLarge(call.visited[k].matrix.dims, call.visited[k].matrix.element_size)
    /\ (IsSave /\ TooLarge(call.cube.dims, ElementSize(call.cube.data_type))) =>
          /\ ~call.ret
          /\ BytesAdded \in {<<>>, write_mat_header(call.hostLE)}

\* A file of another program holds a 65536 x 32768 x 1 uint8 matrix before a
\* good one, and save_wavelengths has been asked to append 268435456 doubles
\* to it.
C11_Witness ==
    /\ plan.header = "edge" /\ plan.items = <<Raw(BadCount), Leaf(G3a)>>
    /\ TooLarge(RawParsed(BadCount, plan.le).dims, 1)
    /\ call.op = "save_wavelengths" /\ call.cube.dims = <<268435456, 1, 1>>
    /\ ~call.ret /\ disk = call.before

\* What C12 says of the element e that read_element has returned for the
\* cursor pos in a stream of size bytes.
CursorKept(e, pos, size) ==
    /\ e.next_pos >= pos + 8
    /\ e.next_pos <= size
    /\ e.payload_pos >= pos /\ e.payload_pos + e.num_bytes <= size
    /\ e.payload_pos = pos + 4 => e.next_pos = pos + 8
    /\ e.payload_pos # pos + 4 =>
          /\ e.payload_pos = pos + 8
          /\ e.next_pos = IF e.payload_pos + aligned8(e.num_bytes) <= size
                          THEN e.payload_pos + aligned8(e.num_bytes)
                          ELSE e.payload_pos + e.num_bytes

\* The same of every cursor in the first size bytes of the stream.
CursorKeptIn(bytes, size, le) ==
    \A pos \in 0..size :
        read_element(bytes, size, pos, le).ok
            => CursorKept(read_element(bytes, size, pos, le), pos, size)

\* The ends at which a stream is cut: its own, and 3 and 6 bytes before it.
CutBacks == {0, 3, 6}

\* C12: decoder cursor invariant.  Every successful read_element leaves the
\* cursor at least 8 bytes further and not past the stream's end (the short
\* form exactly 8 bytes further, the long form at the padded end of the
\* payload or, when that lies past the stream, at the payload's end), and
\* the payload view lies inside the stream; so the walker's cursor is never
\* past the stream's end.  Said of every read of the walker, at every depth,
\* and of read_element at every cursor of the file that has arrived, also
\* when the file is cut short.
C12_CursorInvariant ==
    /\ \A k \in 1..Len(call.log) :
          /\ call.log[k].ev \in {"decode", "decode_failed"} =>
                call.log[k].pos <= call.log[k].size
          /\ call.log[k].ev = "decode" =>
                CursorKept(call.log[k], call.log[k].pos, call.log[k].size)
    /\ (call.op = "none" /\ plan.header = "edge") =>
          \A back \in CutBacks :
              CursorKeptIn(disk.bytes, Len(disk.bytes) - back, plan.le)

\* A list call has walked a file that ends with the last data byte of its
\* last matrix, after an element in the short form: the first read has moved
\* the cursor by 8, the second to the payload's end, the end of the file.
C12_Witness ==
    /\ plan.header = "edge" /\ ~plan.padded /\ plan.items = <<SkippedShort, Leaf(G3a)>>
    /\ call.op = "list_mat_cube_variables" /\ call.ret /\ call.list.count = 1
    /\ \E k \in 1..Len(call.log) :
          /\ call.log[k].ev = "decode" /\ call.log[k].payload_pos = call.log[k].pos + 4
          /\ call.log[k].next_pos = call.log[k].pos + 8
    /\ \E k \in 1..Len(call.log) :
          /\ call.log[k].ev = "decode" /\ call.log[k].next_pos = Len(disk.bytes)
          /\ call.log[k].next_pos = call.log[k].payload_pos + call.log[k].num_bytes
          /\ call.log[k].payload_pos + aligned8(call.log[k].num_bytes) > Len(disk.bytes)

\* The visitor calls that a walk to the end of a stream of items makes, in
\* order, up to the first compressed element that does not inflate:
\* [aborted, ended, visits]; ended says that the walk of this stream has met
\* bytes that are no element.
RECURSIVE EdgeVisits(_, _, _)

EdgeVisit(matrix, delivered, depth) ==
    [aborted |-> FALSE, ended |-> FALSE,
     visits |-> IF delivered THEN <<[matrix |-> matrix, depth |-> depth]>> ELSE <<>>]

EdgeItemVisits(it, depth, le) ==
    CASE it.kind = "mat" ->
            EdgeVisit(ParsedAlone(it.m, le, 0), ParsedAlone(it.m, le, 0).supported, depth)
      [] it.kind = "raw" ->
            EdgeVisit(RawParsed(it.subs, le), Deliverable(it.subs, le), depth)
      [] it.kind = "skip" -> [aborted |-> FALSE, ended |-> FALSE, visits |-> <<>>]
      [] it.kind = "junk" -> [aborted |-> FALSE, ended |-> TRUE, visits |-> <<>>]
      [] it.kind = "z" -> [EdgeVisits(it.inner, depth + 1, le) EXCEPT !.ended = FALSE]
      [] it.kind \in {"zbad", "zcut", "zempty"} ->
            [aborted |-> TRUE, ended |-> FALSE, visits |-> <<>>]

EdgeThen(first, items, depth, le) ==
    IF first.aborted \/ first.ended THEN first
    ELSE [EdgeVisits(items, depth, le) EXCEPT !.visits = first.visits \o @]

EdgeVisits(items, depth, le) ==
    IF items = <<>> THEN [aborted |-> FALSE, ended |-> FALSE, visits |-> <<>>]
    ELSE EdgeThen(EdgeItemVisits(Head(items), depth, le), Tail(items), depth, le)

\* Some item of the stream, at any depth, is of one of the kinds.
RECURSIVE HasKind(_, _)
HasKind(items, kinds) ==
    \E i \in 1..Len(items) : items[i].kind \in kinds \/ HasKind(items[i].inner, kinds)

\* The descriptors a list call of the rank makes of the visits.
SlotOf(matrix, rank) ==
    [name |-> matrix.name,
     dims |-> <<matrix.dims[1], matrix.dims[2], IF rank = 3 THEN matrix.dims[3] ELSE 1>>,
     data_type |-> matrix.data_type]

OfRank(visit) == visit.matrix.rank = RequestedRank

SlotsOf(visits) ==
    [k \in 1..Len(SelectSeq(visits, OfRank)) |->
        SlotOf(SelectSeq(visits, OfRank)[k].matrix, RequestedRank)]

\* The last call was made on a file of the edge layouts with a heap that
\* refuses nothing.
ReadsEdge == plan.header = "edge" /\ call.fail_at = 0

\* The list call has made the visits and returned their descriptors.
ListedAll(walk) ==
    /\ call.ret
    /\ call.visited = walk.visits
    /\ call.list.count = Len(SlotsOf(walk.visits))
    /\ call.list.items = SlotsOf(walk.visits)

\* The load by name has returned the first of the visits of its rank and
\* name, where there is one.
LoadedFirst(matches) ==
    matches # <<>> =>
        /\ call.ret
        /\ ~call.cube.isnull
        /\ call.cube.dims = SlotOf(Head(matches).matrix, RequestedRank).dims
        /\ call.cube.data_type = Head(matches).matrix.data_type
        /\ Len(call.cube.data) = Head(matches).matrix.real_data_bytes

NamedAsAsked(visit) == OfRank(visit) /\ visit.matrix.name = call.var

\* C13: a decode failure ends the walk without error.  When read_element
\* fails in a stream (a short-form length above 4, a long-form length above
\* what is left) or fewer than 8 bytes are left, the walk of that stream
\* ends there and succeeds: nothing more is read or visited in the stream,
\* the list call returns the matrices met before, and a load by name whose
\* match lies before returns its cube.
C13_DecodeFailureEndsWalk ==
    /\ \A k \in 1..Len(call.log) :
          call.log[k].ev = "decode_failed" =>
              /\ k < Len(call.log)
              /\ call.log[k + 1].ev = "release"
              /\ call.log[k + 1].depth = call.log[k].depth
    /\ (ReadsEdge /\ HasKind(plan.items, {"junk"})
        /\ ~EdgeVisits(plan.items, 0, plan.le).aborted) =>
          /\ IsList => ListedAll(EdgeVisits(plan.items, 0, plan.le))
          /\ IsLoadByName =>
                LoadedFirst(SelectSeq(EdgeVisits(plan.items, 0, plan.le).visits,
                                      NamedAsAsked))

\* A compressed element holds a cube and then a tag whose length is not
\* there, and another cube follows the compressed element: the list call has
\* succeeded with both cubes, and the tag's read has failed.
C13_Witness ==
    /\ plan.header = "edge" /\ plan.items = <<Wrap(<<Leaf(G3a), JunkLong>>), Leaf(G3b)>>
    /\ call.op = "list_mat_cube_variables" /\ call.fail_at = 0
    /\ call.ret /\ call.list.count = 2
    /\ \E k \in 1..Len(call.log) :
          call.log[k].ev = "decode_failed" /\ call.log[k].depth = 1

\* The call has failed and left its output cleared, after the visits.
Aborted(walk) ==
    /\ IsList =>
          /\ ~call.ret
          /\ call.list = NullList
          /\ call.visited = walk.visits
    /\ (IsLoadByName /\ SelectSeq(walk.visits, NamedAsAsked) = <<>>) =>
          /\ ~call.ret
          /\ call.cube = ClearedCube
          /\ call.visited = walk.visits

\* C14: a corrupt compressed stream aborts the scan.  When the walk reaches
\* a compressed element that does not inflate (a corrupt stream, a stream
\* that stops before its last block, an empty payload), at any depth, every
\* enclosing scan fails and the entry point returns false: a list call
\* returns no list, whatever it had collected, and a load leaves its cube
\* cleared.
C14_CorruptStreamAborts ==
    (ReadsEdge /\ EdgeVisits(plan.items, 0, plan.le).aborted) =>
        Aborted(EdgeVisits(plan.items, 0, plan.le))

\* A compressed element holds a cube and then a compressed element whose
\* stream stops early: the list call has been handed the cube and has
\* returned false, with no list.
C14_Witness ==
    /\ plan.header = "edge" /\ plan.items = <<Wrap(<<Leaf(G3a), CutStream>>), Leaf(G3b)>>
    /\ call.op = "list_mat_cube_variables" /\ call.fail_at = 0
    /\ Len(call.visited) = 1 /\ call.visited[1].depth = 1
    /\ ~call.ret /\ call.list = NullList

\* The sub-elements are those of one of the matrices that are not to be
\* delivered, in some order.
NotToDeliver(subs) == \E b \in BadKinds : subs \in Orders(b)

\* The matrix of the sub-elements was passed over and the cube after it
\* delivered.
PassedOver(subs) ==
    /\ ~Deliverable(subs, plan.le)
    /\ \A k \in 1..Len(call.visited) :
          call.visited[k].matrix = ParsedAlone(G3a, plan.le, 0)
    /\ IsList => call.ret
    /\ (IsList /\ Len(plan.items) = 2) =>
          call.visited = <<[matrix |-> ParsedAlone(G3a, plan.le, 0), depth |-> 0]>>
    /\ (call.op = "list_mat_cube_variables" /\ Len(plan.items) = 2) =>
          call.list.count = 1 /\ call.list.items = <<DescriptorOf(G3a, 3)>>
    /\ (call.op = "load_cube_by_name" /\ Len(plan.items) = 2) =>
          call.ret /\ call.cube = CubeOf(G3a, 3)

\* C15: unsupported matrices are skipped, not fatal.  A matrix that is
\* complex, of a class outside the six, with a zero or negative dimension,
\* of rank above 16, without flags, dimensions or real data, with a
\* sub-element that cannot be read, or failing the size check is never
\* handed to the visitor and does not make the scan fail; the walk goes on,
\* and a supported matrix after it is delivered.  This holds in every order
\* of the sub-elements.
C15_UnsupportedSkipped ==
    (/\ ReadsEdge /\ call.op # "none" /\ ~IsSave
     /\ plan.items[1].kind = "raw" /\ NotToDeliver(plan.items[1].subs)) =>
        PassedOver(plan.items[1].subs)

\* A matrix whose dimensions (2 x 0 x 1) come before its flags lies before a
\* cube: the list call has returned the cube alone.
C15_Witness ==
    /\ plan.header = "edge"
    /\ plan.items = <<Raw(<<DimsSub(<<2, 0, 1>>), FlagsSub(MX_UINT8_CLASS, FALSE),
                           NameSub(NameA), DataSub(MI_UINT8, <<1, 2>>)>>),
                      Leaf(G3a)>>
    /\ call.op = "list_mat_cube_variables" /\ call.fail_at = 0
    /\ call.ret /\ call.list.count = 1 /\ Len(call.visited) = 1

\* How many buffers of the depth are held after the first k events of the
\* log: the acquisitions less the releases.
Held(log, k, depth) ==
    Cardinality({j \in 1..k : log[j].ev = "acquire" /\ log[j].depth = depth})
    - Cardinality({j \in 1..k : log[j].ev = "release" /\ log[j].depth = depth})

\* The depths of the log's events.
DepthsOf(log) == {log[j].depth : j \in 1..Len(log)}

\* Buffers are released once, after they were acquired and not before the
\* streams inside them are done with; elements are read and matrices handed
\* over only while the buffer they lie in, and those around it, are held;
\* and at the end nothing is held.
ReleasedOnce(log) ==
    /\ \A k \in 1..Len(log) :
          /\ log[k].ev = "acquire" =>
                /\ Held(log, k - 1, log[k].depth) = 0
                /\ \A d \in 0..(log[k].depth - 1) : Held(log, k, d) = 1
          /\ log[k].ev = "release" =>
                /\ Held(log, k - 1, log[k].depth) = 1
                /\ \A d \in DepthsOf(log) : d > log[k].depth => Held(log, k, d) = 0
          /\ log[k].ev \in {"decode", "decode_failed", "visit"} =>
                \A d \in 0..log[k].depth : Held(log, k, d) = 1
    /\ \A d \in DepthsOf(log) : Held(log, Len(log), d) = 0

\* C16: resource release on every exit path.  When a read entry point
\* returns (with a result, without a match, after the visitor has stopped
\* or failed, after a compressed element at any depth has not inflated) the
\* file buffer and every inflated buffer of the call have been released,
\* each once, and no element was read and no matrix handed to the visitor
\* from a buffer that was released.
C16_ReleasedOnEveryPath ==
    (IsLoad \/ IsList) =>
        /\ ReleasedOnce(call.log)
        /\ plan.header # "short" => call.log # <<>> /\ call.log[1] = Event("acquire", 0)

\* A corrupt compressed element lies inside two compressed elements: the
\* list call has failed; it read the element while it held the file and two
\* inflated buffers, and it has released these and the buffer it had
\* allocated for the corrupt stream.
C16_Witness ==
    /\ plan.header = "edge"
    /\ plan.items = <<Wrap(<<Wrap(<<Corrupt>>), Leaf(G2a)>>), Leaf(G3b)>>
    /\ call.op = "list_mat_cube_variables" /\ ~call.ret
    /\ \E k \in 1..Len(call.log) :
          /\ call.log[k].ev = "decode" /\ call.log[k].depth = 2
          /\ \A d \in 0..2 : Held(call.log, k, d) = 1
    /\ Cardinality({k \in 1..Len(call.log) : call.log[k].ev = "release"}) = 4

\* The visitor calls of the log.
VisitEvents(log) == {k \in 1..Len(log) : log[k].ev = "visit"}

\* After the last visitor call the log holds releases only: nothing more
\* was read or visited, in no stream.
UnwoundAfterLastVisit(log) ==
    \A k \in VisitEvents(log) :
        (\A j \in VisitEvents(log) : j <= k) =>
            \A j \in (k + 1)..Len(log) : log[j].ev = "release"

\* The matrix that makes the visitor of the last call stop, or fail when
\* the heap refuses its allocation: for a load by name the one of the rank
\* and name asked for, for a list call with a refusing heap the first of the
\* rank asked for.
Decisive(visit) ==
    \/ IsLoadByName /\ NamedAsAsked(visit)
    \/ IsList /\ call.fail_at = 1 /\ OfRank(visit)

\* C17: stop short-circuits the whole walk.  Once a visitor call has set its
\* stop flag, at any depth, the visitor is not called again, no further
\* element of the inner or an outer stream is read, and the enclosing scans
\* return success with stop set: the load returns its cube.  A visitor call
\* that fails ends the walk in the same way and makes every enclosing scan
\* fail: the entry point returns false with its output cleared.
C17_StopShortCircuits ==
    ((IsLoad \/ IsList) /\ plan.header = "edge") =>
        /\ Cardinality(VisitEvents(call.log)) = Len(call.visited)
        /\ \A k \in 1..Len(call.visited) :
              Decisive(call.visited[k]) =>
                  /\ k = Len(call.visited)
                  /\ UnwoundAfterLastVisit(call.log)
                  /\ call.ret <=> call.fail_at = 0
                  /\ (IsLoad /\ call.fail_at = 1) => call.cube = ClearedCube
                  /\ (IsList /\ call.fail_at = 1) => call.list = NullList
        /\ (IsLoad /\ call.ret) =>
              /\ call.visited # <<>>
              /\ UnwoundAfterLastVisit(call.log)

\* A cube lies inside two compressed elements, before a matrix in the outer
\* one and a cube in the file: the load by name has returned it, and after
\* the visitor call the three buffers were released and nothing else done.
C17_Witness ==
    /\ plan.header = "edge"
    /\ plan.items = <<Wrap(<<Wrap(<<Leaf(G3a)>>), Leaf(G2a)>>), Leaf(G3b)>>
    /\ call.op = "load_cube_by_name" /\ call.fail_at = 0 /\ call.ret
    /\ call.cube = CubeOf(G3a, 3)
    /\ Len(call.visited) = 1 /\ call.visited[1].depth = 2
    /\ Len(call.log) >= 4
    /\ call.log[Len(call.log) - 3].ev = "visit"

\* The 32-bit value that the four bytes after offset off hold, low byte
\* first.
LE32(bytes, off) ==
    bytes[off + 1] + 256 * bytes[off + 2] + 65536 * bytes[off + 3]
    + 16777216 * bytes[off + 4]

\* n, rounded up to a multiple of 8.
Pad8(n) == ((n + 7) \div 8) * 8

\* A sub-element lies at offset off of the element: its tag holds the type
\* and the length, and what follows its len bytes up to the next multiple of
\* 8, at most 7 bytes, is zero.
SubElementAt(bytes, off, type, len) ==
    /\ off % 8 = 0
    /\ LE32(bytes, off) = type
    /\ LE32(bytes, off + 4) = len
    /\ Pad8(len) - len \in 0..7
    /\ \A i \in (off + 8 + len + 1)..(off + 8 + Pad8(len)) : bytes[i] = 0

\* The element is a matrix element laid out as C18 says.
LaidOut(bytes, rank, name_len, data_bytes, mi) ==
    /\ LE32(bytes, 0) = MI_MATRIX
    /\ LE32(bytes, 4) = Len(bytes) - 8
    /\ LE32(bytes, 4) = 16 + (8 + Pad8(4 * rank)) + (8 + Pad8(name_len))
                           + (8 + Pad8(data_bytes))
    /\ SubElementAt(bytes, 8, MI_UINT32, 8)
    /\ SubElementAt(bytes, 24, MI_INT32, 4 * rank)
    /\ SubElementAt(bytes, 32 + Pad8(4 * rank), MI_INT8, name_len)
    /\ SubElementAt(bytes, 40 + Pad8(4 * rank) + Pad8(name_len), mi, data_bytes)
    /\ Len(bytes) = 48 + Pad8(4 * rank) + Pad8(name_len) + Pad8(data_bytes)

\* The matrix element that the last save has written.
WrittenElement ==
    IF call.op = "save_3d_cube" THEN SubSeq(disk.bytes, HEADER_SIZE + 1, Len(disk.bytes))
    ELSE BytesAdded

DataSubTypes == {MI_UINT8, MI_UINT16, MI_INT16, MI_DOUBLE}

\* The first data sub-element of the sub-elements comes after array flags
\* and after dimensions.
DataComesLast(subs) ==
    \E d \in 1..Len(subs) :
        /\ subs[d].type \in DataSubTypes
        /\ \A i \in 1..(d - 1) : subs[i].type \notin DataSubTypes
        /\ \E f \in 1..(d - 1) : subs[f].type = MI_UINT32
        /\ \E m \in 1..(d - 1) : subs[m].type = MI_INT32

\* The parser has recorded real data for the matrix: only then it sets the
\* element size.
RecordedData(matrix) == matrix.element_size # 0

\* C19: real data is recognised only after flags and dimensions.  The
\* parser records a sub-element as the real data of a matrix only when the
\* array flags and the dimensions have been seen before it; a numeric
\* sub-element before the dimensions is not recorded.
C19_DataAfterFlagsAndDims ==
    \A i \in 1..Len(plan.items) :
        (IsLoad /\ call.ret /\ ReadsEdge /\ plan.items[i].kind = "raw") =>
            (RecordedData(RawParsed(plan.items[i].subs, plan.le))
                => DataComesLast(plan.items[i].subs))

\* C20: no partial output after a failed save.  A failed save_3d_cube does
\* not leave a header-only or truncated container file, and a failed
\* save_wavelengths leaves the existing file byte-identical, whatever the
\* cause of the failure.
C20_NoPartialOutput ==
    /\ (call.op = "save_3d_cube" /\ ~call.ret) =>
           (~disk.exists \/ disk = call.before)
    /\ (call.op = "save_wavelengths" /\ ~call.ret) => disk = call.before

\* ===================================================================
\* Claims on vectors appended in turn
\* ===================================================================

\* C21: append leaves existing content unchanged.  After a successful
\* save_wavelengths on a file of S bytes the first S bytes of the file are
\* what they were, and the file has grown by exactly one matrix element,
\* written at offset S, that does not begin with a header;
\* save_wavelengths where no file is fails and creates none.
C21_AppendKeepsContent ==
    call.op = "save_wavelengths" =>
        /\ call.ret =>
              /\ call.before.exists /\ disk.exists
              /\ Len(disk.bytes) > Len(call.before.bytes)
              /\ SubSeq(disk.bytes, 1, Len(call.before.bytes)) = call.before.bytes
              /\ LE32(BytesAdded, 0) = MI_MATRIX
              /\ Len(BytesAdded) = 8 + LE32(BytesAdded, 4)
              /\ Len(BytesAdded) = 56 + Pad8(Len(call.var)) + 8 * call.cube.dims[1]
        /\ ~call.before.exists => ~call.ret /\ ~disk.exists

\* A second vector was appended to a file of the library that held a cube
\* and a vector.
C21_Witness ==
    /\ call.op = "save_wavelengths" /\ call.ret
    /\ saved.has_cube /\ Len(saved.wls) = 2
    /\ Len(call.before.bytes) > HEADER_SIZE + 56

\* parse_matrix_payload calls count_elements on the matrix its loop has
\* left as r tells: the loop has ended without a failure, flags and
\* dimensions were seen, the class is supported and data was recorded.
CountsElements(r) ==
    r.ok /\ r.st.has_flags /\ r.st.has_dims /\ r.st.supported /\ r.st.has_real_data

\* The slots of dims that count_elements(dims, rank) reads: slot i when the
\* loop has come as far as i.
SlotsRead(dims, rank, oob) ==
    {i \in 1..rank : i = 1 \/ count_elements(dims, i - 1, oob).ok}

\* The count of the matrix reads no slot but the three of the vector.
CountStaysInDims(r, oob) ==
    CountsElements(r) => SlotsRead(r.st.dims, r.st.rank, oob) \subseteq 1..3

\* C22: the element count reads only the three slots of the dimension
\* vector.  For every matrix payload that a list call parses, the call of
\* count_elements in parse_matrix_payload reads slots 0..2 of dims only,
\* also when the dimensions element declares a rank of 4 to 16.
C22_CountReadsThreeSlots ==
    (IsList /\ call.has_path /\ plan.header = "ok") =>
        \A j \in 1..Len(PlanWalk.leaves) :
            CountStaysInDims(
                parse_loop(NewParse, MatrixPayload(PlanWalk.leaves[j].m, plan.le, TRUE),
                           Len(MatrixPayload(PlanWalk.leaves[j].m, plan.le, TRUE)), plan.le),
                call.oob)

\* The appends made under the name, in their order.
AppendsUnder(name) == SelectSeq(saved.wls, LAMBDA a : a.var = name)

\* The load has returned the vector a = [var, count, seed]: its count and
\* the bytes of its values as the file stores them.
ReturnsVector(a) ==
    /\ call.ret
    /\ ~call.cube.isnull
    /\ call.cube.rank = 2
    /\ call.cube.dims = <<a.count, 1, 1>>
    /\ call.cube.data_type = MAT_DATA_FLOAT64
    /\ call.cube.data = Pattern(a.count * 8, a.seed)
    /\ call.name = a.var

\* A load of a vector by its name from a file that save_3d_cube has
\* written and vectors were appended to.
LoadsAppended ==
    /\ call.op = "load_2d_array_by_name"
    /\ saved.has_cube
    /\ AppendsUnder(call.var) # <<>>

\* C23 as stated: the latest append is visible.  After successful
\* save_wavelengths calls on one file, some under the same name with other
\* values, load_2d_array_by_name returns the values of the most recent
\* append made under the name.
C23_LatestAppendVisible ==
    LoadsAppended =>
        ReturnsVector(AppendsUnder(call.var)[Len(AppendsUnder(call.var))])

\* C23, amended: the earliest append is visible.  After successful
\* save_wavelengths calls on a file that save_3d_cube has written,
\* load_2d_array_by_name returns the count and the values of the earliest
\* append made under the name.
C23_EarliestAppendVisible ==
    LoadsAppended => ReturnsVector(AppendsUnder(call.var)[1])

\* Two vectors of different counts were appended under "wl" and "wl" was
\* loaded.
C23_Witness ==
    /\ LoadsAppended /\ call.ret
    /\ call.var = NameWl
    /\ Len(AppendsUnder(NameWl)) = 2
    /\ AppendsUnder(NameWl)[1].count # AppendsUnder(NameWl)[2].count

\* The load by name of the rank the list call was made for, from the file
\* at the path.
LoadOfRank(name) ==
    IF RequestedRank = 3 THEN load_cube_by_name(LoadArgs(TRUE, TRUE, name), disk, 0)
    ELSE load_2d_array_by_name(LoadArgs(TRUE, TRUE, name), disk, 0)

\* The load r has succeeded with the dims and the type of the descriptor.
AgreesWith(desc, r) ==
    r.ret /\ r.cube.dims = desc.dims /\ r.cube.data_type = desc.data_type

\* The matrices the list call has listed, in order, as the parser left
\* them.
ListedMatrices == SelectSeq(call.visited, OfRank)

\* The i-th listed matrix is stored under a name that is not empty and is
\* the first of the listed matrices stored under it.
FirstUnderName(listed, i) ==
    /\ listed[i].matrix.name # <<>>
    /\ \A j \in 1..(i - 1) : listed[j].matrix.name # listed[i].matrix.name

\* C24 as stated: list and load agree.  For every descriptor a list call
\* returns, the load by name of the same rank with the descriptor's name
\* succeeds with the descriptor's dims and type, also for a matrix stored
\* with an empty name and for several matrices of one name.
C24_ListLoadAgree ==
    (IsList /\ call.ret) =>
        \A i \in 1..Len(call.list.items) :
            AgreesWith(call.list.items[i], LoadOfRank(call.list.items[i].name))

\* C24, amended: for every descriptor whose matrix is stored under a name
\* that is not empty and is the first of its rank under that name in the
\* file, the load by name of the same rank with the descriptor's name
\* succeeds with the descriptor's dims and type.
C24_FirstOfNameAgrees ==
    (IsList /\ call.ret) =>
        /\ Len(ListedMatrices) = Len(call.list.items)
        /\ \A i \in 1..Len(call.list.items) :
              FirstUnderName(ListedMatrices, i) =>
                  AgreesWith(call.list.items[i], LoadOfRank(call.list.items[i].name))

\* The list holds a matrix stored with an empty name and two of one name
\* that differ in their dims.
C24_Witness ==
    /\ IsList /\ call.ret
    /\ Len(call.list.items) = 3
    /\ call.list.items[2].name = UnnamedName
    /\ call.list.items[1].name = call.list.items[3].name
    /\ call.list.items[1].dims # call.list.items[3].dims

\* The file as it was before the one vector a was appended to it.
FileBefore(a) ==
    [exists |-> TRUE,
     bytes |-> SubSeq(disk.bytes, 1,
                      Len(disk.bytes) - (56 + Pad8(Len(a.var)) + 8 * a.count))]

\* list_mat_2d_variables has returned l for a file that it reads to its
\* end and that holds no matrix of rank 2 under the name.
ListsWithout(l, name) ==
    /\ l.ret
    /\ \A k \in 1..Len(l.visited) :
          l.visited[k].matrix.rank = 2 => l.visited[k].matrix.name # name

\* C25: append after a tolerated file.  To a file on which
\* list_mat_2d_variables succeeds and that holds no matrix of rank 2 under
\* the name n a vector was appended under n: load_2d_array_by_name(path, n)
\* succeeds and returns the vector, also when the file's last element
\* lacks its final padding or the file ends in fewer than 8 bytes that are
\* no element.
C25_AppendAfterTolerated ==
    (/\ call.op = "load_2d_array_by_name"
     /\ Len(saved.wls) = 1
     /\ saved.wls[1].var = call.var
     /\ ListsWithout(list_mat_2d_variables(ListArgs(TRUE), FileBefore(saved.wls[1]), 0),
                     call.var))
        => ReturnsVector(saved.wls[1])

====
